---- MODULE Spec2Model ----
(***************************************************************************)
(* Model of the interface-identity translation layer of show/main.py:      *)
(* InterfaceAliasConverter (alias directory and identifier codec),         *)
(* run_command / run_command_in_alias_mode / print_output_in_alias_mode    *)
(* (streaming output rewriter).                                            *)
(*                                                                         *)
(* A Python string is a sequence of one-character strings.  A Python call  *)
(* that may raise is an operator returning a record [exc, val]: exc is     *)
(* "none" when the call returns val, otherwise the name of the exception.  *)
(***************************************************************************)
EXTENDS Integers, Sequences, FiniteSets, TLC

----------------------------------------------------------------------------
(* Python string primitives *)

VLAN_SUB_INTERFACE_SEPARATOR == "."

Whitespace == {" ", "\n", "\t"}

Ok(v) == [exc |-> "none", val |-> v]

Raise(e) == [exc |-> e, val |-> <<>>]

\* s[i:] of Python with i 0-based: the elements after the first i
Drop(s, i) == SubSeq(s, i + 1, Len(s))

\* s[:i] of Python: the first i elements
Take(s, i) == SubSeq(s, 1, i)

\* s.startswith(p)
StartsWith(s, p) == Len(p) <= Len(s) /\ Take(s, Len(p)) = p

\* p occurs in s at 1-based position i
OccursAt(s, p, i) == i >= 1 /\ i + Len(p) - 1 <= Len(s) /\ SubSeq(s, i, i + Len(p) - 1) = p

\* s.find(p) of Python, 0-based, -1 when absent
Find(s, p) ==
    LET hits == {i \in 1..(Len(s) + 1) : OccursAt(s, p, i)}
    IN  IF hits = {} THEN -1
        ELSE (CHOOSE i \in hits : \A j \in hits : i <= j) - 1

\* p in s
Contains(s, p) == Find(s, p) # -1

\* s.lstrip()
RECURSIVE LStrip(_)
LStrip(s) == IF s # <<>> /\ Head(s) \in Whitespace THEN LStrip(Tail(s)) ELSE s

\* s.rstrip('\n')
RECURSIVE RStripNL(_)
RStripNL(s) ==
    IF s # <<>> /\ s[Len(s)] = "\n" THEN RStripNL(Take(s, Len(s) - 1)) ELSE s

\* fill repeated n times
RECURSIVE Repeat(_, _)
Repeat(c, n) == IF n <= 0 THEN <<>> ELSE <<c>> \o Repeat(c, n - 1)

\* s.rjust(width, fill): pad on the LEFT up to width
RJust(s, width, fill) == Repeat(fill, width - Len(s)) \o s

\* s.replace(old, new, 1): the first (lowest) occurrence only
ReplaceFirst(s, old, new) ==
    LET i == Find(s, old)
    IN  IF i = -1 THEN s
        ELSE Take(s, i) \o new \o Drop(s, i + Len(old))

\* s.replace(old, new): every non-overlapping occurrence, left to right
RECURSIVE ReplaceAll(_, _, _)
ReplaceAll(s, old, new) ==
    LET i == Find(s, old)
    IN  IF i = -1 \/ old = <<>> THEN s
        ELSE Take(s, i) \o new \o ReplaceAll(Drop(s, i + Len(old)), old, new)

\* s.split(): maximal runs of non-whitespace
RECURSIVE SplitWs(_, _)
SplitWs(s, cur) ==
    IF s = <<>> THEN (IF cur = <<>> THEN <<>> ELSE <<cur>>)
    ELSE IF Head(s) \in Whitespace
         THEN (IF cur = <<>> THEN <<>> ELSE <<cur>>) \o SplitWs(Tail(s), <<>>)
         ELSE SplitWs(Tail(s), Append(cur, Head(s)))

Split(s) == SplitWs(s, <<>>)

\* sep.join(words)
RECURSIVE Join(_, _)
Join(words, sep) ==
    IF words = <<>> THEN <<>>
    ELSE IF Len(words) = 1 THEN words[1]
    ELSE words[1] \o sep \o Join(Tail(words), sep)

----------------------------------------------------------------------------
(* State *)

VARIABLES
    port_table,         \* the PORT table of ConfigDB: name -> record
    port_dict,          \* InterfaceAliasConverter.port_dict: name -> record
    keys_order,         \* the order in which port_dict.keys() iterates
    alias_max_length,   \* InterfaceAliasConverter.alias_max_length
    warnings,           \* number of PORT table warnings written to stderr
    mode,               \* value of SONIC_CLI_IFACE_MODE ("unset" when absent)
    pc,                 \* position of the process
    command,            \* command string handed to run_command
    ncmds,              \* number of run_command calls made so far
    pipe,               \* lines the subprocess has written, not yet read
    proc_out,           \* lines read from the subprocess so far, in order
    proc_rc,            \* exit code of the subprocess, -1 while it runs
    stdout,             \* lines echoed since the latest run_command call began, in order
    exit_code,          \* exit status of the process, -1 while it runs
    base,               \* number of lines of stdout echoed before the subprocess was spawned
    return_cmd,         \* the return_cmd argument of the running run_command
    call,               \* last codec call: [fn, arg, res]
    config_db,          \* the BGP tables of ConfigDB: table name -> key -> record
    peer_order,         \* the order in which the BGP_PEER_RANGE dict iterates
    subnet_order,       \* the order in which a dict keyed by subnets iterates
    static_neighbors,   \* first result of get_bgp_neighbors_dict
    dynamic_neighbors,  \* second result of get_bgp_neighbors_dict
    bgp_call,           \* last call of get_bgp_neighbor_ip_to_name: [ip, res]
    command_output,     \* the argument of get_bgp_summary_extended: a text
    my_list,            \* the lines of command_output not yet iterated
    modified_output     \* the lines get_bgp_summary_extended has appended

\* the state of the BGP neighbor-name resolver
bgp_vars == <<config_db, peer_order, subnet_order, static_neighbors, dynamic_neighbors,
              bgp_call, command_output, my_list, modified_output>>

\* the state of the alias converter, the rewriter and the process
cli_vars == <<port_table, port_dict, keys_order, alias_max_length, warnings, mode,
              command, ncmds, pipe, proc_out, proc_rc, stdout, base, return_cmd, call>>

vars == <<port_table, port_dict, keys_order, alias_max_length, warnings, mode, pc,
          command, ncmds, pipe, proc_out, proc_rc, stdout, exit_code, base,
          return_cmd, call, config_db, peer_order, subnet_order, static_neighbors,
          dynamic_neighbors, bgp_call, command_output, my_list, modified_output>>

\* the None object of Python (not a string)
PyNone == <<"<None>">>

\* 'alias' in record
HasAlias(rec) == "alias" \in DOMAIN rec

----------------------------------------------------------------------------
(* InterfaceAliasConverter *)

\* the for loop of __init__: running maximum of len(alias), left at the first
\* record without an alias (except KeyError: break)
RECURSIVE MaxAliasLoop(_, _, _)
MaxAliasLoop(table, order, cur) ==
    IF order = <<>> THEN cur
    ELSE IF ~HasAlias(table[Head(order)]) THEN cur
    ELSE MaxAliasLoop(table, Tail(order),
                      IF cur < Len(table[Head(order)].alias)
                      THEN Len(table[Head(order)].alias) ELSE cur)

\* self.port_dict[port_name]['alias']
AliasOf(port_name) ==
    IF HasAlias(port_dict[port_name]) THEN Ok(port_dict[port_name].alias)
    ELSE Raise("KeyError")

\* the for loop of name_to_alias over self.port_dict.keys()
RECURSIVE NameLoop(_, _, _, _)
NameLoop(order, interface_name, sub_intf_sep_idx, vlan_id) ==
    IF order = <<>>
    THEN Ok(IF sub_intf_sep_idx = -1 THEN interface_name
            ELSE interface_name \o <<VLAN_SUB_INTERFACE_SEPARATOR>> \o vlan_id)
    ELSE IF interface_name = Head(order)
         THEN LET a == AliasOf(Head(order))
              IN  IF a.exc # "none" THEN a
                  ELSE Ok(IF sub_intf_sep_idx = -1 THEN a.val
                          ELSE a.val \o <<VLAN_SUB_INTERFACE_SEPARATOR>> \o vlan_id)
         ELSE NameLoop(Tail(order), interface_name, sub_intf_sep_idx, vlan_id)

name_to_alias(interface_name) ==
    IF interface_name = PyNone THEN Ok(PyNone)
    ELSE LET sub_intf_sep_idx == Find(interface_name, <<VLAN_SUB_INTERFACE_SEPARATOR>>)
         IN  IF sub_intf_sep_idx # -1
             THEN NameLoop(keys_order, Take(interface_name, sub_intf_sep_idx),
                           sub_intf_sep_idx, Drop(interface_name, sub_intf_sep_idx + 1))
             ELSE NameLoop(keys_order, interface_name, -1, <<>>)

\* the for loop of alias_to_name over self.port_dict.keys()
RECURSIVE AliasLoop(_, _, _, _)
AliasLoop(order, interface_alias, sub_intf_sep_idx, vlan_id) ==
    IF order = <<>>
    THEN Ok(IF sub_intf_sep_idx = -1 THEN interface_alias
            ELSE interface_alias \o <<VLAN_SUB_INTERFACE_SEPARATOR>> \o vlan_id)
    ELSE LET a == AliasOf(Head(order))
         IN  IF a.exc # "none" THEN a
             ELSE IF interface_alias = a.val
                  THEN Ok(IF sub_intf_sep_idx = -1 THEN Head(order)
                          ELSE Head(order) \o <<VLAN_SUB_INTERFACE_SEPARATOR>> \o vlan_id)
                  ELSE AliasLoop(Tail(order), interface_alias, sub_intf_sep_idx, vlan_id)

alias_to_name(interface_alias) ==
    IF interface_alias = PyNone THEN Ok(PyNone)
    ELSE LET sub_intf_sep_idx == Find(interface_alias, <<VLAN_SUB_INTERFACE_SEPARATOR>>)
         IN  IF sub_intf_sep_idx # -1
             THEN AliasLoop(keys_order, Take(interface_alias, sub_intf_sep_idx),
                            sub_intf_sep_idx, Drop(interface_alias, sub_intf_sep_idx + 1))
             ELSE AliasLoop(keys_order, interface_alias, -1, <<>>)

----------------------------------------------------------------------------
(* re.sub with the two patterns of run_command_in_alias_mode *)

\* one pattern character against one subject character; the port name is put
\* into the pattern unescaped, so '.' is the wildcard (any character but newline)
CharMatch(p, c) == IF p = "." THEN c # "\n" ELSE p = c

\* the port name part of the pattern matches s from 1-based position k
NameMatchAt(s, name, k) ==
    /\ k >= 1
    /\ k + Len(name) - 1 <= Len(s)
    /\ \A t \in 1..Len(name) : CharMatch(name[t], s[k + t - 1])

\* '$' without re.MULTILINE: at the end, or before a final newline
AtDollar(s, k) == k = Len(s) + 1 \/ (k = Len(s) /\ s[k] = "\n")

IsWs(s, k) == k >= 1 /\ k <= Len(s) /\ s[k] \in Whitespace

CharIs(s, k, cs) == k >= 1 /\ k <= Len(s) /\ s[k] \in cs

\* group 2 of the default pattern, ($|,{0,1}\s), from position k: the position
\* after the match, 0 when it does not match
WordTrail(s, k) ==
    IF AtDollar(s, k) THEN k
    ELSE IF CharIs(s, k, {","}) /\ IsWs(s, k + 1) THEN k + 2
    ELSE IF IsWs(s, k) THEN k + 1
    ELSE 0

\* group 2 of the teamshow pattern, (\([DS]\*{0,1}\)(?:$|\s)), from position k
\* \([DS]\*{0,1}\) from position k: the position after it, 0 when no match
MarkerEnd(s, k) ==
    IF CharIs(s, k, {"("}) /\ CharIs(s, k + 1, {"D", "S"})
    THEN IF CharIs(s, k + 2, {"*"})
         THEN (IF CharIs(s, k + 3, {")"}) THEN k + 4 ELSE 0)
         ELSE (IF CharIs(s, k + 2, {")"}) THEN k + 3 ELSE 0)
    ELSE 0

\* (?:$|\s) from position m, the end of the marker
MarkerTrail(s, m) ==
    IF m = 0 THEN 0
    ELSE IF AtDollar(s, m) THEN m
    ELSE IF IsWs(s, m) THEN m + 1
    ELSE 0

TeamTrail(s, k) == MarkerTrail(s, MarkerEnd(s, k))

\* mutant of Trail: no trailing boundary after the name, a bare prefix search
TrailNoBoundary(kind, s, k) == k

Trail(kind, s, k) == IF kind = "team" THEN TeamTrail(s, k) ELSE WordTrail(s, k)

\* the whole pattern tried at position i: [from |-> start of the name, to |->
\* position after the match], to = 0 when there is no match at i.  Group 1 is
\* (^|\s): '^' is tried first and holds only at the start of the string
FirstAlternative(i, viaStart, viaSpace) ==
    IF viaStart # 0 THEN [from |-> 1, to |-> viaStart]
    ELSE IF viaSpace # 0 THEN [from |-> i + 1, to |-> viaSpace]
    ELSE [from |-> 0, to |-> 0]

MatchAt(kind, s, name, i) ==
    FirstAlternative(i,
        IF i = 1 /\ NameMatchAt(s, name, 1)
        THEN Trail(kind, s, 1 + Len(name)) ELSE 0,
        IF IsWs(s, i) /\ NameMatchAt(s, name, i + 1)
        THEN Trail(kind, s, i + 1 + Len(name)) ELSE 0)

\* positions >= pos at which the pattern matches
MatchStarts(kind, s, name, pos) ==
    {i \in pos..Len(s) : MatchAt(kind, s, name, i).to # 0}

DecDigits == {"0", "1", "2", "3", "4", "5", "6", "7", "8", "9"}

OctDigits == {"0", "1", "2", "3", "4", "5", "6", "7"}

\* the replacement template r"\\1{}\\2".format(alias) is the literal alias between
\* the two groups unless the alias starts with a digit: then the escape and the
\* digit read as a reference to group 10..19, which the pattern does not have,
\* and expanding a match raises (two leading octal digits would read as an
\* octal escape instead; no alias of the model has them)
BadTemplate(alias) ==
    /\ alias # <<>>
    /\ Head(alias) \in DecDigits
    /\ ~(Len(alias) >= 2 /\ alias[1] \in OctDigits /\ alias[2] \in OctDigits)

\* re.sub(pattern, template, s): leftmost non-overlapping matches, scanning
\* resumes after the END of each match (group 2 included)
RECURSIVE SubFrom(_, _, _, _, _)

\* the match m is replaced by group 1, the alias and group 2; the text before
\* it is copied; rest is the result for the text from m.to on
Splice(s, name, alias, pos, m, rest) ==
    IF rest.exc # "none" THEN rest
    ELSE Ok(SubSeq(s, pos, m.from - 1) \o alias
            \o SubSeq(s, m.from + Len(name), m.to - 1) \o rest.val)

\* the scan goes on from m.to, the end of the match
SubMatch(kind, s, name, alias, pos, m) ==
    Splice(s, name, alias, pos, m, SubFrom(kind, s, name, alias, m.to))

\* starts: the positions >= pos at which the pattern matches
SubLeftmost(kind, s, name, alias, pos, starts) ==
    IF starts = {} THEN Ok(SubSeq(s, pos, Len(s)))
    ELSE IF BadTemplate(alias) THEN Raise("re.error")
    ELSE SubMatch(kind, s, name, alias, pos,
                  MatchAt(kind, s, name, CHOOSE x \in starts : \A y \in starts : x <= y))

SubFrom(kind, s, name, alias, pos) ==
    SubLeftmost(kind, s, name, alias, pos, MatchStarts(kind, s, name, pos))

ReSub(kind, port_name, alias, s) == SubFrom(kind, s, port_name, alias, 1)

\* for port_name in port_dict.keys(): converted_output = re.sub(...)
\* name_to_alias(port_name) is evaluated for every port, matched or not
RECURSIVE SubLoop(_, _, _)

\* r: the result of re.sub for the port Head(order)
SubNext(kind, order, r) ==
    IF r.exc # "none" THEN r ELSE SubLoop(kind, Tail(order), r.val)

\* a: the result of name_to_alias for the port Head(order)
SubPort(kind, order, converted_output, a) ==
    IF a.exc # "none" THEN a
    ELSE SubNext(kind, order, ReSub(kind, Head(order), a.val, converted_output))

SubLoop(kind, order, converted_output) ==
    IF order = <<>> THEN Ok(converted_output)
    ELSE SubPort(kind, order, converted_output, name_to_alias(Head(order)))

----------------------------------------------------------------------------
(* String literals of the rewriter *)

S_IFACE == <<"I", "F", "A", "C", "E">>

S_PortTx == <<"P", "o", "r", "t", " ", "T", "x">>

S_PortRx == <<"P", "o", "r", "t", " ", "R", "x">>

S_Port == <<"P", "o", "r", "t">>

S_LocalPort == <<"L", "o", "c", "a", "l", "P", "o", "r", "t">>

S_No == <<"N", "o", ".">>

S_Type == <<"T", "y", "p", "e">>

S_Vlan == <<"V", "l", "a", "n">>

S_Dashes == <<"-", "-", "-">>

C_portstat == <<"p", "o", "r", "t", "s", "t", "a", "t">>

C_intfstat == <<"i", "n", "t", "f", "s", "t", "a", "t">>

C_pfcstat == <<"p", "f", "c", "s", "t", "a", "t">>

C_sfputil_show_eeprom == <<"s", "u", "d", "o", " ", "s", "f", "p", "u", "t", "i", "l", " ", "s", "h", "o", "w", " ", "e", "e", "p", "r", "o", "m">>

C_sfputil_show == <<"s", "u", "d", "o", " ", "s", "f", "p", "u", "t", "i", "l", " ", "s", "h", "o", "w">>

C_lldpshow == <<"s", "u", "d", "o", " ", "l", "l", "d", "p", "s", "h", "o", "w">>

C_queuestat == <<"q", "u", "e", "u", "e", "s", "t", "a", "t">>

C_fdbshow == <<"f", "d", "b", "s", "h", "o", "w">>

C_nbrshow == <<"n", "b", "r", "s", "h", "o", "w">>

C_teamshow == <<"s", "u", "d", "o", " ", "t", "e", "a", "m", "s", "h", "o", "w">>

C_intfutil == <<"i", "n", "t", "f", "u", "t", "i", "l">>

----------------------------------------------------------------------------
(* print_output_in_alias_mode *)

\* the "---" branch: the cell at index is left-filled with '-' up to
\* alias_max_length and the cells are joined again with two spaces
AdjustUnderline(output, index) ==
    IF StartsWith(output, S_Dashes)
    THEN LET word == Split(output)
         IN  IF index + 1 > Len(word) THEN Raise("IndexError")
             ELSE Ok(Join([word EXCEPT ![index + 1] =
                               RJust(word[index + 1], alias_max_length, "-")],
                          <<" ", " ">>))
    ELSE Ok(output)

\* interface_name = word[index].replace(':', '') when the line has a word
FieldToken(output, index) ==
    LET word == Split(output)
    IN  IF word = <<>> THEN Ok(<<>>)
        ELSE IF index + 1 > Len(word) THEN Raise("IndexError")
        ELSE Ok(ReplaceAll(word[index + 1], <<":">>, <<>>))

\* for port_name in natsorted(port_dict.keys()): the keys are distinct, at most
\* one equals interface_name, so the result is the same in every order
RECURSIVE LookupLoop(_, _, _)
LookupLoop(order, interface_name, alias_name) ==
    IF order = <<>> THEN Ok(alias_name)
    ELSE IF interface_name = Head(order)
         THEN LET a == AliasOf(Head(order))
              IN  IF a.exc # "none" THEN a
                  ELSE LookupLoop(Tail(order), interface_name, a.val)
         ELSE LookupLoop(Tail(order), interface_name, alias_name)

\* the alias as it is put into the line
PadAlias(alias_name) ==
    IF Len(alias_name) < alias_max_length
    THEN RJust(alias_name, alias_max_length, " ")
    ELSE alias_name

\* output.replace(interface_name, alias_name, 1)
ReplaceName(output, interface_name, alias_name) ==
    ReplaceFirst(output, interface_name, alias_name)

\* the line print_output_in_alias_mode(output, index) echoes, or its exception
\* if alias_name: click.echo(output.replace(...).rstrip('\n')), else
\* click.echo(output.rstrip('\n')); al is the result of the lookup loop
EchoLine(output, interface_name, al) ==
    IF al.exc # "none" THEN al
    ELSE IF al.val # <<>>
    THEN Ok(RStripNL(ReplaceName(output, interface_name, PadAlias(al.val))))
    ELSE Ok(RStripNL(output))

\* tok: the result of taking the token at index
LookupToken(output, tok) ==
    IF tok.exc # "none" THEN tok
    ELSE EchoLine(output, tok.val, LookupLoop(keys_order, tok.val, <<>>))

\* adj: the result of the "---" branch
ConvertLine(adj, index) ==
    IF adj.exc # "none" THEN adj
    ELSE LookupToken(adj.val, FieldToken(adj.val, index))

print_output_in_alias_mode(output, index) ==
    ConvertLine(AdjustUnderline(output, index), index)

----------------------------------------------------------------------------
(* run_command_in_alias_mode: the body of the read loop for one line *)

\* output.replace(header, header.rjust(alias_max_length)) when the line starts
\* with the header
PadHeader(output, header) ==
    IF StartsWith(output, header)
    THEN ReplaceAll(output, header, RJust(header, alias_max_length, " "))
    ELSE output

\* the fdbshow branch before the call of print_output_in_alias_mode
FdbAdjust(output) ==
    IF StartsWith(output, S_No)
    THEN Ok(ReplaceAll(<<" ", " ">> \o output, S_Type,
                       <<" ", " ", " ", " ", " ", " ">> \o S_Type))
    ELSE IF output = <<>> THEN Raise("IndexError")
    ELSE IF Head(output) \in DecDigits
         THEN Ok(<<" ", " ", " ", " ">> \o output)
    ELSE Ok(output)

\* the nbrshow branch before the call of print_output_in_alias_mode
NbrAdjust(output) ==
    IF Contains(output, S_Vlan)
    THEN ReplaceAll(output, S_Vlan, <<" ", " ">> \o S_Vlan)
    ELSE output

\* mutant of Profile: the 'sudo sfputil show' branch stands before the
\* 'sudo sfputil show eeprom' branch
ProfileShowBeforeEeprom(cmd) ==
    IF StartsWith(cmd, C_portstat) THEN "portstat"
    ELSE IF StartsWith(cmd, C_intfstat) THEN "intfstat"
    ELSE IF cmd = C_pfcstat THEN "pfcstat"
    ELSE IF StartsWith(cmd, C_sfputil_show) THEN "sfputil"
    ELSE IF StartsWith(cmd, C_sfputil_show_eeprom) THEN "eeprom"
    ELSE IF cmd = C_lldpshow THEN "lldpshow"
    ELSE IF StartsWith(cmd, C_queuestat) THEN "queuestat"
    ELSE IF cmd = C_fdbshow THEN "fdbshow"
    ELSE IF StartsWith(cmd, C_nbrshow) THEN "nbrshow"
    ELSE IF StartsWith(cmd, C_teamshow) THEN "team"
    ELSE "default"

\* the branch of the if/elif chain taken for a command
Profile(cmd) ==
    IF StartsWith(cmd, C_portstat) THEN "portstat"
    ELSE IF StartsWith(cmd, C_intfstat) THEN "intfstat"
    ELSE IF cmd = C_pfcstat THEN "pfcstat"
    ELSE IF StartsWith(cmd, C_sfputil_show_eeprom) THEN "eeprom"
    ELSE IF StartsWith(cmd, C_sfputil_show) THEN "sfputil"
    ELSE IF cmd = C_lldpshow THEN "lldpshow"
    ELSE IF StartsWith(cmd, C_queuestat) THEN "queuestat"
    ELSE IF cmd = C_fdbshow THEN "fdbshow"
    ELSE IF StartsWith(cmd, C_nbrshow) THEN "nbrshow"
    ELSE IF StartsWith(cmd, C_teamshow) THEN "team"
    ELSE "default"

\* index: the column print_output_in_alias_mode is told to look at
FieldIndex(prof) == IF prof = "fdbshow" THEN 3 ELSE IF prof = "nbrshow" THEN 2 ELSE 0

\* the text a positional branch hands to print_output_in_alias_mode
PreparedFrom(prof, raw_output, output) ==
    IF prof \in {"portstat", "intfstat"} THEN Ok(PadHeader(output, S_IFACE))
    ELSE IF prof = "pfcstat"
    THEN Ok(IF StartsWith(output, S_PortTx) THEN PadHeader(output, S_PortTx)
            ELSE PadHeader(output, S_PortRx))
    ELSE IF prof = "eeprom" THEN Ok(raw_output)
    ELSE IF prof \in {"sfputil", "queuestat"} THEN Ok(PadHeader(output, S_Port))
    ELSE IF prof = "lldpshow" THEN Ok(PadHeader(output, S_LocalPort))
    ELSE IF prof = "fdbshow" THEN FdbAdjust(output)
    ELSE Ok(NbrAdjust(output))

\* output = raw_output.lstrip() in every positional branch but the eeprom one
Prepared(prof, raw_output) == PreparedFrom(prof, raw_output, LStrip(raw_output))

\* what the loop body echoes for the line raw_output, or the exception it raises
\* click.echo(converted_output.rstrip('\n')) after the loop over the ports
EchoConverted(r) == IF r.exc # "none" THEN r ELSE Ok(RStripNL(r.val))

\* print_output_in_alias_mode(output, index) of a positional branch
EchoPositional(prof, p) ==
    IF p.exc # "none" THEN p ELSE print_output_in_alias_mode(p.val, FieldIndex(prof))

RewriteProfile(prof, raw_output) ==
    IF prof \in {"team", "default"}
    THEN EchoConverted(SubLoop(prof, keys_order, raw_output))
    ELSE EchoPositional(prof, Prepared(prof, raw_output))

RewriteLine(cmd, raw_output) == RewriteProfile(Profile(cmd), raw_output)

----------------------------------------------------------------------------
(* The ipaddress library as get_bgp_neighbor_ip_to_name uses it.  An IPv4      *)
(* address is the sequence of its 4 octets, an IPv6 address the sequence of   *)
(* its 8 groups of 16 bits; a network is [addr, prefixlen].                   *)

\* s.split(sep) with a one-character separator: empty fields are kept
RECURSIVE SplitOnFrom(_, _, _)
SplitOnFrom(s, sep, cur) ==
    IF s = <<>> THEN <<cur>>
    ELSE IF Head(s) = sep THEN <<cur>> \o SplitOnFrom(Tail(s), sep, <<>>)
    ELSE SplitOnFrom(Tail(s), sep, Append(cur, Head(s)))

SplitOn(s, sep) == SplitOnFrom(s, sep, <<>>)

HexLower == <<"0", "1", "2", "3", "4", "5", "6", "7", "8", "9", "a", "b", "c", "d", "e", "f">>

HexUpper == <<"0", "1", "2", "3", "4", "5", "6", "7", "8", "9", "A", "B", "C", "D", "E", "F">>

HexDigits == {HexLower[i] : i \in 1..16} \cup {HexUpper[i] : i \in 1..16}

\* the value of one digit
DigitValue(c) == CHOOSE v \in 0..15 : HexLower[v + 1] = c \/ HexUpper[v + 1] = c

\* int(s, radix) of a string of digits, acc the value of the digits read
RECURSIVE ParseInt(_, _, _)
ParseInt(s, radix, acc) ==
    IF s = <<>> THEN acc
    ELSE ParseInt(Tail(s), radix, acc * radix + DigitValue(Head(s)))

\* every character of s is in cs
AllIn(s, cs) == \A i \in 1..Len(s) : s[i] \in cs

RECURSIVE Pow2(_)
Pow2(n) == IF n <= 0 THEN 1 ELSE 2 * Pow2(n - 1)

\* the number of bits of group j (1-based, each of width bits) that a prefix of
\* prefixlen bits leaves to the host
HostBits(width, prefixlen, j) ==
    IF prefixlen >= width * j THEN 0
    ELSE IF prefixlen <= width * (j - 1) THEN width
    ELSE width * j - prefixlen

\* _parse_octet: decimal digits, at most three, no ambiguous leading zero, at
\* most 255
ValidOctet(o) ==
    /\ o # <<>>
    /\ AllIn(o, DecDigits)
    /\ Len(o) <= 3
    /\ ~(ParseInt(o, 10, 0) > 7 /\ Head(o) = "0")
    /\ ParseInt(o, 10, 0) <= 255

\* octets: the fields of the text between the dots
OctetsToAddress(octets) ==
    IF Len(octets) # 4 \/ \E i \in 1..Len(octets) : ~ValidOctet(octets[i])
    THEN Raise("AddressValueError")
    ELSE Ok([i \in 1..4 |-> ParseInt(octets[i], 10, 0)])

\* ipaddress.IPv4Address(s)
IPv4Address(s) ==
    IF Contains(s, <<"/">>) THEN Raise("AddressValueError")
    ELSE OctetsToAddress(SplitOn(s, "."))

\* _parse_hextet: one to four hexadecimal digits
ValidHextet(h) == h # <<>> /\ AllIn(h, HexDigits) /\ Len(h) <= 4

\* the groups of 16 bits a list of fields stands for
Hextets(parts) == [i \in 1..Len(parts) |-> ParseInt(parts[i], 16, 0)]

\* the fields of an IPv6 text whose last field is a dotted quad: the quad is two
\* groups of 16 bits, written here as two hexadecimal fields
RECURSIVE ToHex(_, _)
ToHex(v, n) == IF n = 0 THEN <<>> ELSE ToHex(v \div 16, n - 1) \o <<HexLower[(v % 16) + 1]>>

QuadFields(parts, quad) ==
    IF quad.exc # "none" THEN <<>>
    ELSE SubSeq(parts, 1, Len(parts) - 1)
         \o <<ToHex(quad.val[1] * 256 + quad.val[2], 4), ToHex(quad.val[3] * 256 + quad.val[4], 4)>>

\* the interior fields that are empty: the places of '::'
SkipIndexes(parts) == {i \in 2..(Len(parts) - 1) : parts[i] = <<>>}

\* the fields before and after the '::' at field skip, bare of the empty field
\* a leading or a trailing '::' leaves at the end
HiParts(parts, skip) == IF parts[1] = <<>> THEN <<>> ELSE SubSeq(parts, 1, skip - 1)

LoParts(parts, skip) ==
    IF parts[Len(parts)] = <<>> THEN <<>> ELSE SubSeq(parts, skip + 1, Len(parts))

\* hi and lo: the fields before and after '::', which stands for the groups
\* that are missing, at least one
JoinHalves(hi, lo) ==
    IF \/ Len(hi) + Len(lo) > 7
       \/ \E k \in 1..Len(hi) : ~ValidHextet(hi[k])
       \/ \E k \in 1..Len(lo) : ~ValidHextet(lo[k])
    THEN Raise("AddressValueError")
    ELSE Ok(Hextets(hi) \o [k \in 1..(8 - Len(hi) - Len(lo)) |-> 0] \o Hextets(lo))

\* an empty first (last) field is allowed only as part of a leading (trailing) '::'
FieldsWithSkip(parts, skip) ==
    IF \/ (parts[1] = <<>> /\ skip # 2)
       \/ (parts[Len(parts)] = <<>> /\ skip # Len(parts) - 1)
    THEN Raise("AddressValueError")
    ELSE JoinHalves(HiParts(parts, skip), LoParts(parts, skip))

\* _ip_int_from_string on the fields; none stands for fewer than 3 fields or a
\* dotted quad that does not parse
FieldsToAddress(parts) ==
    IF parts = <<>> \/ Len(parts) > 9 \/ Cardinality(SkipIndexes(parts)) > 1
    THEN Raise("AddressValueError")
    ELSE IF SkipIndexes(parts) = {}
    THEN IF Len(parts) # 8 \/ \E i \in 1..Len(parts) : ~ValidHextet(parts[i])
         THEN Raise("AddressValueError")
         ELSE Ok(Hextets(parts))
    ELSE FieldsWithSkip(parts, CHOOSE i \in SkipIndexes(parts) : TRUE)

\* parts: the fields of the text between the colons
ColonFields(parts) ==
    IF Len(parts) < 3 THEN <<>>
    ELSE IF Contains(parts[Len(parts)], <<".">>)
    THEN QuadFields(parts, IPv4Address(parts[Len(parts)]))
    ELSE parts

\* ipaddress.IPv6Address(s)
IPv6Address(s) ==
    IF Contains(s, <<"/">>) THEN Raise("AddressValueError")
    ELSE FieldsToAddress(ColonFields(SplitOn(s, ":")))

\* _prefix_from_prefix_string: decimal digits, at most max_prefixlen (a prefix
\* written as a dotted netmask is none of the inputs)
PrefixLength(p, max_prefixlen) ==
    IF p = <<>> \/ ~AllIn(p, DecDigits) \/ Len(p) > 3 THEN Raise("NetmaskValueError")
    ELSE IF ParseInt(p, 10, 0) > max_prefixlen THEN Raise("NetmaskValueError")
    ELSE Ok(ParseInt(p, 10, 0))

\* strict=True: a network address with host bits set is refused
MakeNetwork(addr, prefixlen, width) ==
    IF addr.exc # "none" THEN addr
    ELSE IF prefixlen.exc # "none" THEN prefixlen
    ELSE IF \E j \in 1..Len(addr.val) :
               addr.val[j] % Pow2(HostBits(width, prefixlen.val, j)) # 0
    THEN Raise("ValueError")
    ELSE Ok([addr |-> addr.val, prefixlen |-> prefixlen.val])

\* parts: the text split at '/'
PartsToV4Network(parts) ==
    IF Len(parts) > 2 THEN Raise("AddressValueError")
    ELSE MakeNetwork(IPv4Address(parts[1]),
                     IF Len(parts) = 2 THEN PrefixLength(parts[2], 32) ELSE Ok(32), 8)

\* ipaddress.IPv4Network(s)
IPv4Network(s) == PartsToV4Network(SplitOn(s, "/"))

PartsToV6Network(parts) ==
    IF Len(parts) > 2 THEN Raise("AddressValueError")
    ELSE MakeNetwork(IPv6Address(parts[1]),
                     IF Len(parts) = 2 THEN PrefixLength(parts[2], 128) ELSE Ok(128), 16)

\* ipaddress.IPv6Network(s)
IPv6Network(s) == PartsToV6Network(SplitOn(s, "/"))

\* address in network, both of the same family with groups of width bits
InNetwork(addr, net, width) ==
    \A j \in 1..Len(addr) :
        addr[j] \div Pow2(HostBits(width, net.prefixlen, j))
            = net.addr[j] \div Pow2(HostBits(width, net.prefixlen, j))

----------------------------------------------------------------------------
(* BGP neighbor-name resolver *)

NotAvailable == <<"N", "o", "t", "A", "v", "a", "i", "l", "a", "b", "l", "e">>

\* d.update(e): the entries of e are added to d and replace those of equal key
Update(d, e) ==
    [k \in DOMAIN d \cup DOMAIN e |-> IF k \in DOMAIN e THEN e[k] ELSE d[k]]

\* get_neighbor_dict_from_table(db, table_name): key -> the record's name, or
\* 'NotAvailable' for a record without one
get_neighbor_dict_from_table(neighbor_data) ==
    [entry \in DOMAIN neighbor_data |->
        IF "name" \in DOMAIN neighbor_data[entry] THEN neighbor_data[entry].name
        ELSE NotAvailable]

\* is_ipv4_address(ipaddress): inside the function the name ipaddress is the
\* parameter, a unicode string, not the module.  The string has no attribute
\* IPv4Address, and the except clause that is to catch the failure looks up
\* ipaddress.AddressValueError on the same string: AttributeError leaves the
\* function for every argument
is_ipv4_address(ipaddress) == Raise("AttributeError")

\* is_ipv6_address(ipaddress): the same shadowing of the module by the parameter
is_ipv6_address(ipaddress) == Raise("AttributeError")

\* the two maps get_dynamic_neighbor_subnet builds
EmptyMaps == [v4 |-> <<>>, v6 |-> <<>>]

\* the record goes to the map of the family of its src_address, to neither map
\* when it is of neither family; t4 and t6 are the results of the two tests
FileEntry(rec, maps, t4, t6) ==
    IF t4.exc # "none" THEN t4
    ELSE IF t4.val
    THEN Ok([maps EXCEPT !.v4 = Update(@, [k \in {rec.ip_range[1]} |-> rec.name])])
    ELSE IF t6.exc # "none" THEN t6
    ELSE IF t6.val
    THEN Ok([maps EXCEPT !.v6 = Update(@, [k \in {rec.ip_range[1]} |-> rec.name])])
    ELSE Ok(maps)

\* one pass of the for loop of get_dynamic_neighbor_subnet
DynamicEntry(rec, maps) ==
    IF "ip_range" \notin DOMAIN rec THEN Raise("KeyError")
    ELSE IF rec.ip_range = <<>> THEN Raise("IndexError")
    ELSE IF "name" \notin DOMAIN rec THEN Raise("KeyError")
    ELSE IF "src_address" \notin DOMAIN rec THEN Raise("KeyError")
    ELSE FileEntry(rec, maps, is_ipv4_address(rec.src_address),
                   is_ipv6_address(rec.src_address))

RECURSIVE DynamicLoop(_, _, _)

\* r: the result of the pass for the entry Head(order)
DynamicNext(neighbor_data, order, r) ==
    IF r.exc # "none" THEN r ELSE DynamicLoop(neighbor_data, Tail(order), r.val)

\* for entry in neighbor_data.keys()
DynamicLoop(neighbor_data, order, maps) ==
    IF order = <<>> THEN Ok(maps)
    ELSE DynamicNext(neighbor_data, order, DynamicEntry(neighbor_data[Head(order)], maps))

\* what get_dynamic_neighbor_subnet returns: the dict {"v4": ..., "v6": ...}
\* when the loop ends, and neighbor_data itself (except: return neighbor_data)
\* when anything in the loop raises
DynamicResult(neighbor_data, r) ==
    IF r.exc # "none"
    THEN [kind |-> "table", table |-> neighbor_data, v4 |-> <<>>, v6 |-> <<>>]
    ELSE [kind |-> "maps", table |-> <<>>, v4 |-> r.val.v4, v6 |-> r.val.v6]

get_dynamic_neighbor_subnet(neighbor_data, order) ==
    DynamicResult(neighbor_data, DynamicLoop(neighbor_data, order, EmptyMaps))

\* mutant of StaticNeighbors: the update runs the other way round and the
\* BGP_NEIGHBOR name wins
StaticNeighborsNeighborWins(db) ==
    Update(get_neighbor_dict_from_table(db.BGP_MONITORS),
           get_neighbor_dict_from_table(db.BGP_NEIGHBOR))

\* get_bgp_neighbors_dict: static_neighbors.update(bgp_monitors)
StaticNeighbors(db) ==
    Update(get_neighbor_dict_from_table(db.BGP_NEIGHBOR),
           get_neighbor_dict_from_table(db.BGP_MONITORS))

\* the keys of a dict in the order it iterates
KeysInOrder(map) == SelectSeq(subnet_order, LAMBDA k : k \in DOMAIN map)

\* ipaddress.IPv4Address / IPv6Address by family
AddressOf(family, s) == IF family = "v4" THEN IPv4Address(s) ELSE IPv6Address(s)

\* ipaddress.IPv4Network / IPv6Network by family
NetworkOf(family, s) == IF family = "v4" THEN IPv4Network(s) ELSE IPv6Network(s)

GroupWidth(family) == IF family = "v4" THEN 8 ELSE 16

RECURSIVE SubnetLoop(_, _, _, _)

\* if ipaddress.IPv4Address(ip) in ipaddress.IPv4Network(subnet): return the name
SubnetTest(family, ip, order, map, addr, net) ==
    IF addr.exc # "none" THEN addr
    ELSE IF net.exc # "none" THEN net
    ELSE IF InNetwork(addr.val, net.val, GroupWidth(family)) THEN Ok(map[Head(order)])
    ELSE SubnetLoop(family, ip, Tail(order), map)

\* for subnet in dynamic_neighbors[family].keys(); when no subnet contains the
\* address the function ends without a return statement and returns None
SubnetLoop(family, ip, order, map) ==
    IF order = <<>> THEN Ok(PyNone)
    ELSE SubnetTest(family, ip, order, map, AddressOf(family, ip),
                    NetworkOf(family, Head(order)))

\* dynamic_neighbors[family]: the value get_dynamic_neighbor_subnet returned has
\* the keys "v4" and "v6" only when its loop ended without an exception (no
\* entry of BGP_PEER_RANGE is itself named v4 or v6)
FamilyLookup(family, ip, dynamic) ==
    IF dynamic.kind # "maps" THEN Raise("KeyError")
    ELSE SubnetLoop(family, ip, KeysInOrder(dynamic[family]), dynamic[family])

\* the elif chain of get_bgp_neighbor_ip_to_name; t4 and t6 are the results of
\* is_ipv4_address and is_ipv6_address
ResolveFamily(ip, dynamic, t4, t6) ==
    IF t4.exc # "none" THEN t4
    ELSE IF t4.val THEN FamilyLookup("v4", ip, dynamic)
    ELSE IF t6.exc # "none" THEN t6
    ELSE IF t6.val THEN FamilyLookup("v6", ip, dynamic)
    ELSE Ok(NotAvailable)

\* mutant of get_bgp_neighbor_ip_to_name: the static registry is not looked at
get_bgp_neighbor_ip_to_name_dynamic_only(ip, static, dynamic) ==
    ResolveFamily(ip, dynamic, is_ipv4_address(ip), is_ipv6_address(ip))

get_bgp_neighbor_ip_to_name(ip, static, dynamic) ==
    IF ip \in DOMAIN static THEN Ok(static[ip])
    ELSE ResolveFamily(ip, dynamic, is_ipv4_address(ip), is_ipv6_address(ip))

----------------------------------------------------------------------------
(* get_bgp_summary_extended *)

S_Neighbor == <<"N", "e", "i", "g", "h", "b", "o", "r">>

S_TotalNumber == <<"T", "o", "t", "a", "l", " ", "n", "u", "m", "b", "e", "r", " ">>

S_NeighborName == <<"N", "e", "i", "g", "h", "b", "o", "r", "N", "a", "m", "e">>

\* text.splitlines() (the texts of the model have no line boundary but "\n"):
\* a final newline ends the last line and starts no other
SplitLines(text) ==
    IF text = <<>> THEN <<>>
    ELSE IF text[Len(text)] = "\n" THEN SplitOn(Take(text, Len(text) - 1), "\n")
    ELSE SplitOn(text, "\n")

\* "{}".format(name): None is written as the word None
FormatName(name) == IF name = PyNone THEN <<"N", "o", "n", "e">> ELSE name

\* the positions after a match of \d+ that begins at a position of starts
DigitRunEnds(t, starts) ==
    {j \in 2..(Len(t) + 1) : \E i \in starts : i < j /\ \A k \in i..(j - 1) : t[k] \in DecDigits}

\* the positions after a match of '.', any character but a newline
AnyCharEnds(t, starts) == {i + 1 : i \in {x \in starts : x <= Len(t) /\ t[x] # "\n"}}

\* \d+.\d+.\d+.\d+ matches t from position start
DottedMatch(t, start) ==
    DigitRunEnds(t, AnyCharEnds(t, DigitRunEnds(t, AnyCharEnds(t,
        DigitRunEnds(t, AnyCharEnds(t, DigitRunEnds(t, {start}))))))) # {}

\* [0-9A-Fa-f]{1,4}: matches t from position start
HexColonMatch(t, start) ==
    \E k \in 1..4 :
        /\ start + k <= Len(t)
        /\ \A i \in start..(start + k - 1) : t[i] \in HexDigits
        /\ t[start + k] = ":"

\* re.match(r"(\*?([0-9A-Fa-f]{1,4}:|\d+.\d+.\d+.\d+))", t): anchored at the
\* start of t, the star optional
AddressMatch(t) ==
    \E start \in {IF StartsWith(t, <<"*">>) THEN 2 ELSE 1} :
        HexColonMatch(t, start) \/ DottedMatch(t, start)

\* ip = first_element[1:] if first_element.startswith("*") else first_element
StripStar(first_element) ==
    IF StartsWith(first_element, <<"*">>) THEN Drop(first_element, 1) ELSE first_element

\* the result of one pass of the for loop: the lines appended, the lines left
\* to iterate, the call of the resolver made
Pass(lines, rest, res_call) ==
    [exc |-> "none", lines |-> lines, rest |-> rest, call |-> res_call]

\* a pass that raises e after appending lines
PassRaises(e, lines, res_call) ==
    [exc |-> e, lines |-> lines, rest |-> <<>>, call |-> res_call]

\* the neighbor branch after the name is resolved (n: the result of the
\* resolver): a line that is the address alone is appended as it is and the
\* name goes to the line next(my_list) returns, StopIteration without one
NeighborPass(element, rest, ip, n) ==
    IF n.exc # "none" THEN PassRaises(n.exc, <<>>, [ip |-> ip, res |-> n])
    ELSE IF Len(Split(element)) = 1
    THEN IF rest = <<>> THEN PassRaises("StopIteration", <<element>>, [ip |-> ip, res |-> n])
         ELSE Pass(<<element, Head(rest) \o <<"\t">> \o FormatName(n.val)>>, Tail(rest),
                   [ip |-> ip, res |-> n])
    ELSE Pass(<<element \o <<"\t">> \o FormatName(n.val)>>, rest, [ip |-> ip, res |-> n])

\* the last two branches of the loop body: words is element.split()
WordsPass(element, rest, words, static, dynamic, last_call) ==
    IF words = <<>> THEN PassRaises("IndexError", <<>>, last_call)
    ELSE IF AddressMatch(words[1])
    THEN NeighborPass(element, rest, StripStar(words[1]),
                      get_bgp_neighbor_ip_to_name(StripStar(words[1]), static, dynamic))
    ELSE Pass(<<element>>, rest, last_call)

\* the body of 'for element in my_list' for the line element, rest being the
\* lines after it
LoopPass(element, rest, static, dynamic, last_call) ==
    IF StartsWith(element, S_Neighbor)
    THEN Pass(<<element \o <<"\t">> \o S_NeighborName>>, rest, last_call)
    ELSE IF element = <<>> \/ StartsWith(element, S_TotalNumber)
    THEN Pass(<<element>>, rest, last_call)
    ELSE WordsPass(element, rest, Split(element), static, dynamic, last_call)

----------------------------------------------------------------------------
(* Bounded inputs *)

\* lines one subprocess writes in the streaming specification
MaxLines == 2

\* run_command calls one handler makes
MaxCommands == 2

E1 == <<"E", "1">>

E10 == <<"E", "1", "0">>

PortNames == {E1, E10}

Aliases == {<<"p", "1">>, <<"e", "t", "p", "1", "0">>, <<"E", "1", "0">>, <<"p", ".", "1">>, <<"1", "p">>, <<>>}

\* a record of the PORT table: with an alias, or with other fields only
PortRecords == {[alias |-> a] : a \in Aliases} \cup {[lanes |-> <<"1">>]}

\* every PORT table over PortNames, the empty table included
PortTables == UNION {[D -> PortRecords] : D \in SUBSET PortNames}

\* the orders in which a dict with these keys may iterate
KeyOrders(keys) ==
    {o \in UNION {[1..n -> keys] : n \in {Cardinality(keys)}} :
        \A i, j \in DOMAIN o : i # j => o[i] # o[j]}

ExitCodes == {0, 1, 2}

\* values of SONIC_CLI_IFACE_MODE: the two the config command writes, the
\* variable absent, and a value that is neither
EnvModes == {"alias", "default", "unset", "Alias"}

\* command strings of the handlers: one per branch of the rewriter, the exempt
\* intfutil, commands with arguments, and commands no branch names
Commands ==
    {C_portstat, C_intfstat, C_pfcstat, C_sfputil_show_eeprom,
     C_sfputil_show \o <<" ", "l", "p", "m", "o", "d", "e">>, C_lldpshow, C_queuestat, C_fdbshow,
     C_fdbshow \o <<" ", "-", "v", " ", "1">>, C_nbrshow \o <<" ", "-", "4">>, C_teamshow,
     C_intfutil \o <<" ", "s", "t", "a", "t", "u", "s">>, <<"i", "p", " ", "l", "i", "n", "k">>}

NL == <<"\n">>

SP == <<" ">>

\* cells of an output line: port names bare, with ':' or ',' or a team status
\* marker, another word, a number, an underline
Cells ==
    {E1, E10, <<"E", "1", ":">>, <<"E", "1", ",">>, <<"E", "1", "(", "S", ")">>, <<"E", "1", "0", "(", "D", "*", ")">>, <<"E", "1", "(", "X", ")">>, <<"x">>, <<"7">>, <<"-", "-", "-">>}

\* cells of the lines with three and four columns
CoreCells == {E1, E10, <<"x">>}

\* column headers the branches look for
HeaderLines ==
    {<<"I", "F", "A", "C", "E", " ", "x", "\n">>,
     <<"P", "o", "r", "t", " ", "T", "x", " ", "x", "\n">>,
     <<"P", "o", "r", "t", " ", "R", "x", " ", "x", "\n">>,
     <<"P", "o", "r", "t", " ", "x", "\n">>,
     <<"L", "o", "c", "a", "l", "P", "o", "r", "t", " ", "x", "\n">>,
     <<"N", "o", ".", " ", "V", "l", "a", "n", " ", "x", " ", "P", "o", "r", "t", " ", "T", "y", "p", "e", "\n">>,
     <<"x", " ", "V", "l", "a", "n", "\n">>}

\* lines a subprocess may write: blank, one to four cells separated by one or two
\* spaces, indented, without the final newline, headers
RewriteLines ==
    {NL, E1, SP \o E1 \o NL, SP \o NL}
    \cup {a \o NL : a \in Cells}
    \cup {a \o sep \o b \o NL : a \in Cells, b \in Cells, sep \in {SP, SP \o SP}}
    \cup {a \o SP \o b \o SP \o c \o NL : a \in CoreCells, b \in CoreCells, c \in CoreCells}
    \cup {a \o SP \o b \o SP \o c \o SP \o d \o NL :
             a \in CoreCells \cup {<<"7">>}, b \in {<<"x">>}, c \in CoreCells, d \in CoreCells}
    \cup HeaderLines

\* lines of the streaming specification
StreamLines ==
    {NL, E1 \o NL, E10 \o SP \o E1 \o <<"(", "S", ")", "\n">>,
     <<"x", " ", "x", " ", "E", "1", " ", "x", "\n">>, <<"7", " ", "x", "\n">>}

\* PORT tables of the streaming specification: empty, one port, two ports of
\* which one has no alias
StreamTables ==
    {<<>>,
     (E1 :> [alias |-> <<"p", "1">>]),
     (E1 :> [alias |-> <<"p", "1">>]) @@ (E10 :> [lanes |-> <<"1">>])}

\* command strings of the streaming specification
StreamCommands ==
    {C_portstat, C_fdbshow, C_teamshow, C_intfutil \o <<" ", "s", "t", "a", "t", "u", "s">>, <<"i", "p", " ", "l", "i", "n", "k">>}

\* arguments of the codec: names, aliases and unknown words, bare or followed by
\* the separator and a suffix, and None
Suffixes == {<<>>, <<"7">>, <<"7", ".", "7">>}

CodecArgs ==
    LET stems == PortNames \cup Aliases \cup {<<"x">>}
    IN  stems \cup {a \o <<VLAN_SUB_INTERFACE_SEPARATOR>> \o v : a \in stems, v \in Suffixes}
        \cup {PyNone}

\* neighbor addresses: two of IPv4, one of IPv6, one of neither family
IP_1001 == <<"1", ".", "0", ".", "0", ".", "1">>

IP_1011 == <<"1", ".", "0", ".", "1", ".", "1">>

IP_v6 == <<"1", ":", ":", "1">>

IP_bad == <<"x">>

BgpIps == {IP_1001, IP_1011, IP_v6, IP_bad}

\* subnets of BGP_PEER_RANGE: 1.0.0.0/24 inside 1.0.0.0/8, and 1::/64
Net24 == <<"1", ".", "0", ".", "0", ".", "0", "/", "2", "4">>

Net8 == <<"1", ".", "0", ".", "0", ".", "0", "/", "8">>

Net64 == <<"1", ":", ":", "/", "6", "4">>

Subnets == {Net24, Net8, Net64}

\* records of BGP_NEIGHBOR and of BGP_MONITORS: with a name, or with other
\* fields only
NeighborRecords == {[name |-> <<"l", "1">>], [asn |-> <<"6">>]}

MonitorRecords == {[name |-> <<"m", "1">>], [asn |-> <<"6">>]}

NeighborTables == UNION {[D -> NeighborRecords] : D \in SUBSET {IP_1001, IP_v6}}

MonitorTables == UNION {[D -> MonitorRecords] : D \in SUBSET {IP_1001, IP_1011}}

\* records of BGP_PEER_RANGE: of either family, with a source address of neither
\* family, and without a name
PeerRecords ==
    {[name |-> <<"s", "2", "4">>, ip_range |-> <<Net24>>, src_address |-> <<"1", ".", "0", ".", "0", ".", "9">>],
     [name |-> <<"s", "8">>, ip_range |-> <<Net8>>, src_address |-> <<"1", ".", "0", ".", "0", ".", "9">>],
     [name |-> <<"s", "6">>, ip_range |-> <<Net64>>, src_address |-> <<"1", ":", ":", "9">>],
     [name |-> <<"s", "x">>, ip_range |-> <<Net24>>, src_address |-> <<"x">>],
     [ip_range |-> <<Net24>>, src_address |-> <<"1", ".", "0", ".", "0", ".", "9">>]}

PeerNames == {<<"r", "1">>, <<"r", "2">>}

PeerTables == UNION {[D -> PeerRecords] : D \in SUBSET PeerNames}

\* lines of a BGP summary: the header, a blank line, the total, a neighbor
\* row, rows that are an address alone (of either family), the rest of such a
\* row, a row with a star before the address, a line of white space, a title
L_Header == S_Neighbor \o <<" ", "V">>

L_Total == S_TotalNumber \o <<"1">>

L_Row == IP_1001 \o <<" ", "4">>

L_Rest == <<" ", "4">>

L_Starred == <<"*">> \o IP_1001 \o <<" ", "4">>

L_Space == <<" ">>

L_Title == <<"B", "G", "P", " ", "x">>

SummaryLines ==
    {L_Header, <<>>, L_Total, L_Row, IP_1001, IP_v6, L_Rest, L_Starred, L_Space, L_Title}

MaxSummaryLines == 3

RECURSIVE LineSeqs(_)

\* the sequences of at most n lines
LineSeqs(n) ==
    IF n = 0 THEN {<<>>}
    ELSE LineSeqs(n - 1) \cup
         {Append(ls, l) : ls \in {x \in LineSeqs(n - 1) : Len(x) = n - 1}, l \in SummaryLines}

\* the texts a summary command writes: lines joined by newlines, the last one
\* ended by a newline or not
SummaryTexts ==
    {Join(ls, <<"\n">>) \o e : ls \in LineSeqs(MaxSummaryLines) \ {<<>>}, e \in {<<>>, <<"\n">>}}
        \cup {<<>>}

----------------------------------------------------------------------------
(* Operations *)

S_Command == <<"C", "o", "m", "m", "a", "n", "d", ":", " ">>

\* mutant of get_interface_mode: the absent variable is not given a default
get_interface_mode_raw == mode

\* get_interface_mode()
get_interface_mode == IF mode = "unset" THEN "default" ELSE mode

\* mutant of InAliasMode: intfutil commands are not exempt
InAliasModeNoExemption(cmd) == get_interface_mode = "alias"

\* run_command: the condition under which the command is handed to
\* run_command_in_alias_mode
InAliasMode(cmd) == get_interface_mode = "alias" /\ ~StartsWith(cmd, C_intfutil)

NoCall == [fn |-> "none", arg |-> <<>>, res |-> Ok(<<>>)]

NoBgpCall == [ip |-> <<>>, res |-> Ok(<<>>)]

\* no handler of the BGP summary has run
BgpIdle ==
    /\ config_db = [BGP_NEIGHBOR |-> <<>>, BGP_MONITORS |-> <<>>, BGP_PEER_RANGE |-> <<>>]
    /\ peer_order = <<>>
    /\ subnet_order = <<>>
    /\ static_neighbors = <<>>
    /\ dynamic_neighbors = get_dynamic_neighbor_subnet(<<>>, <<>>)
    /\ bgp_call = NoBgpCall
    /\ command_output = <<>>
    /\ my_list = <<>>
    /\ modified_output = <<>>

\* the module is being imported: nothing has run
Init ==
    /\ port_table \in StreamTables
    /\ keys_order \in KeyOrders(DOMAIN port_table)
    /\ mode \in EnvModes
    /\ port_dict = <<>>
    /\ alias_max_length = 0
    /\ warnings = 0
    /\ pc = "import"
    /\ command = <<>>
    /\ ncmds = 0
    /\ pipe = <<>>
    /\ proc_out = <<>>
    /\ proc_rc = -1
    /\ stdout = <<>>
    /\ exit_code = -1
    /\ base = 0
    /\ return_cmd = FALSE
    /\ call = NoCall
    /\ BgpIdle

\* mutant of Construct: the warning is written whatever the table holds
ConstructAlwaysWarning ==
    /\ pc = "import"
    /\ port_dict' = port_table
    /\ warnings' = warnings + 1
    /\ alias_max_length' = MaxAliasLoop(port_table, keys_order, 0)
    /\ pc' = "handler"
    /\ UNCHANGED <<port_table, keys_order, mode, command, ncmds, pipe, proc_out,
                   proc_rc, stdout, exit_code, base, return_cmd, call, bgp_vars>>

\* iface_alias_converter = InterfaceAliasConverter()
Construct ==
    /\ pc = "import"
    /\ port_dict' = port_table
    /\ warnings' = IF DOMAIN port_table = {} THEN warnings + 1 ELSE warnings
    /\ alias_max_length' = MaxAliasLoop(port_table, keys_order, 0)
    /\ pc' = "handler"
    /\ UNCHANGED <<port_table, keys_order, mode, command, ncmds, pipe, proc_out,
                   proc_rc, stdout, exit_code, base, return_cmd, call, bgp_vars>>

\* mutant of CodecCall: the codec widens alias_max_length to the length of the
\* text it returns
CodecCallWidening(fn, arg) ==
    /\ pc = "handler"
    /\ get_interface_mode = "alias"
    /\ LET res == IF fn = "name_to_alias" THEN name_to_alias(arg) ELSE alias_to_name(arg)
       IN  /\ call' = [fn |-> fn, arg |-> arg, res |-> res]
           /\ pc' = IF res.exc = "none" THEN "handler" ELSE "crashed"
           /\ exit_code' = IF res.exc = "none" THEN exit_code ELSE 1
           /\ alias_max_length' = IF res.exc = "none" /\ alias_max_length < Len(res.val)
                                  THEN Len(res.val) ELSE alias_max_length
    /\ UNCHANGED <<port_table, port_dict, keys_order, warnings, mode,
                   command, ncmds, pipe, proc_out, proc_rc, stdout, base, return_cmd, bgp_vars>>

\* a handler calls name_to_alias or alias_to_name (it does so in alias mode);
\* an exception is not caught anywhere and ends the process with status 1
CodecCall(fn, arg) ==
    /\ pc = "handler"
    /\ get_interface_mode = "alias"
    /\ LET res == IF fn = "name_to_alias" THEN name_to_alias(arg) ELSE alias_to_name(arg)
       IN  /\ call' = [fn |-> fn, arg |-> arg, res |-> res]
           /\ pc' = IF res.exc = "none" THEN "handler" ELSE "crashed"
           /\ exit_code' = IF res.exc = "none" THEN exit_code ELSE 1
    /\ UNCHANGED <<port_table, port_dict, keys_order, alias_max_length, warnings, mode,
                   command, ncmds, pipe, proc_out, proc_rc, stdout, base, return_cmd, bgp_vars>>

\* show interfaces naming_mode: click.echo(get_interface_mode()); the value
\* echoed is kept in call
NamingMode ==
    /\ pc = "handler"
    /\ call' = [fn |-> "get_interface_mode", arg |-> <<>>, res |-> Ok(get_interface_mode)]
    /\ UNCHANGED <<port_table, port_dict, keys_order, alias_max_length, warnings, mode,
                   pc, command, ncmds, pipe, proc_out, proc_rc, stdout, exit_code, base,
                   return_cmd, bgp_vars>>

\* run_command(cmd, display_cmd, ret) up to the Popen of either path
RunCommand(cmd, display_cmd, ret) ==
    /\ pc = "handler"
    /\ ncmds < MaxCommands
    /\ ncmds' = ncmds + 1
    /\ command' = cmd
    /\ return_cmd' = ret
    /\ stdout' = IF display_cmd THEN <<S_Command \o cmd>> ELSE <<>>
    /\ base' = Len(stdout')
    /\ pc' = IF InAliasMode(cmd) THEN "alias_loop" ELSE "direct_loop"
    /\ pipe' = <<>>
    /\ proc_out' = <<>>
    /\ proc_rc' = -1
    /\ UNCHANGED <<port_table, port_dict, keys_order, alias_max_length, warnings, mode,
                   exit_code, call, bgp_vars>>

\* the subprocess writes one line to its standard output
SubprocWrite(line) ==
    /\ pc \in {"alias_loop", "direct_loop"}
    /\ proc_rc = -1
    /\ Len(pipe) + Len(proc_out) < MaxLines
    /\ pipe' = Append(pipe, line)
    /\ UNCHANGED <<port_table, port_dict, keys_order, alias_max_length, warnings, mode,
                   pc, command, ncmds, proc_out, proc_rc, stdout, exit_code, base,
                   return_cmd, call, bgp_vars>>

\* the subprocess terminates
SubprocExit(rc) ==
    /\ pc \in {"alias_loop", "direct_loop"}
    /\ proc_rc = -1
    /\ proc_rc' = rc
    /\ UNCHANGED <<port_table, port_dict, keys_order, alias_max_length, warnings, mode,
                   pc, command, ncmds, pipe, proc_out, stdout, exit_code, base,
                   return_cmd, call, bgp_vars>>

\* run_command_in_alias_mode: readline() returns a line and the loop body runs
AliasReadLine ==
    /\ pc = "alias_loop"
    /\ pipe # <<>>
    /\ \E r \in {RewriteLine(command, Head(pipe))} :
           /\ stdout' = IF r.exc = "none" THEN Append(stdout, r.val) ELSE stdout
           /\ pc' = IF r.exc = "none" THEN pc ELSE "crashed"
           /\ exit_code' = IF r.exc = "none" THEN exit_code ELSE 1
    /\ proc_out' = Append(proc_out, Head(pipe))
    /\ pipe' = Tail(pipe)
    /\ UNCHANGED <<port_table, port_dict, keys_order, alias_max_length, warnings, mode,
                   command, ncmds, proc_rc, base, return_cmd, call, bgp_vars>>

\* the status sys.exit is called with after the read loop of the alias path:
\* rc from run_command_in_alias_mode when rc != 0, else 0 from run_command
AliasExitStatus(rc) == IF rc # 0 THEN rc ELSE 0

\* mutant of AliasEOF: without the sys.exit(0) of run_command, the call returns
\* to the handler after a zero exit code
AliasEOFReturning ==
    /\ pc = "alias_loop"
    /\ pipe = <<>>
    /\ proc_rc # -1
    /\ exit_code' = IF proc_rc # 0 THEN proc_rc ELSE exit_code
    /\ pc' = IF proc_rc # 0 THEN "exited" ELSE "handler"
    /\ UNCHANGED <<port_table, port_dict, keys_order, alias_max_length, warnings, mode,
                   command, ncmds, pipe, proc_out, proc_rc, stdout, base, return_cmd, call, bgp_vars>>

\* mutant of AliasEOF: the loop is left as soon as no line is there to read,
\* without asking poll() whether the subprocess has exited
AliasEOFNoPoll ==
    /\ pc = "alias_loop"
    /\ pipe = <<>>
    /\ exit_code' = AliasExitStatus(proc_rc)
    /\ pc' = "exited"
    /\ UNCHANGED <<port_table, port_dict, keys_order, alias_max_length, warnings, mode,
                   command, ncmds, pipe, proc_out, proc_rc, stdout, base, return_cmd, call, bgp_vars>>

\* run_command_in_alias_mode: readline() returns '' and poll() is not None
AliasEOF ==
    /\ pc = "alias_loop"
    /\ pipe = <<>>
    /\ proc_rc # -1
    /\ exit_code' = AliasExitStatus(proc_rc)
    /\ pc' = "exited"
    /\ UNCHANGED <<port_table, port_dict, keys_order, alias_max_length, warnings, mode,
                   command, ncmds, pipe, proc_out, proc_rc, stdout, base, return_cmd, call, bgp_vars>>

\* run_command, direct path: readline() returns a line
DirectReadLine ==
    /\ pc = "direct_loop"
    /\ ~return_cmd
    /\ pipe # <<>>
    /\ stdout' = Append(stdout, RStripNL(Head(pipe)))
    /\ proc_out' = Append(proc_out, Head(pipe))
    /\ pipe' = Tail(pipe)
    /\ UNCHANGED <<port_table, port_dict, keys_order, alias_max_length, warnings, mode,
                   pc, command, ncmds, proc_rc, exit_code, base, return_cmd, call, bgp_vars>>

\* run_command, direct path: end of the loop, sys.exit(rc) when rc != 0
DirectEOF ==
    /\ pc = "direct_loop"
    /\ ~return_cmd
    /\ pipe = <<>>
    /\ proc_rc # -1
    /\ pc' = IF proc_rc # 0 THEN "exited" ELSE "handler"
    /\ exit_code' = IF proc_rc # 0 THEN proc_rc ELSE exit_code
    /\ UNCHANGED <<port_table, port_dict, keys_order, alias_max_length, warnings, mode,
                   command, ncmds, pipe, proc_out, proc_rc, stdout, base, return_cmd, call, bgp_vars>>

\* run_command, direct path with return_cmd: communicate() reads everything,
\* waits for the subprocess and the output is returned, not echoed
DirectCommunicate ==
    /\ pc = "direct_loop"
    /\ return_cmd
    /\ proc_rc # -1
    /\ proc_out' = proc_out \o pipe
    /\ pipe' = <<>>
    /\ pc' = "handler"
    /\ UNCHANGED <<port_table, port_dict, keys_order, alias_max_length, warnings, mode,
                   command, ncmds, proc_rc, stdout, exit_code, base, return_cmd, call, bgp_vars>>

\* the handler returns and the process ends with status 0
HandlerReturn ==
    /\ pc = "handler"
    /\ pc' = "exited"
    /\ exit_code' = 0
    /\ UNCHANGED <<port_table, port_dict, keys_order, alias_max_length, warnings, mode,
                   command, ncmds, pipe, proc_out, proc_rc, stdout, base, return_cmd, call, bgp_vars>>

Next ==
    \/ Construct
    \/ \E fn \in {"name_to_alias", "alias_to_name"} : CodecCall(fn, E1)
    \/ NamingMode
    \/ \E cmd \in StreamCommands, d \in BOOLEAN, r \in BOOLEAN : RunCommand(cmd, d, r)
    \/ \E line \in StreamLines : SubprocWrite(line)
    \/ \E rc \in ExitCodes : SubprocExit(rc)
    \/ AliasReadLine
    \/ AliasEOF
    \/ DirectReadLine
    \/ DirectEOF
    \/ DirectCommunicate
    \/ HandlerReturn

Spec == Init /\ [][Next]_vars

----------------------------------------------------------------------------
(* The rewriter on one line: the converter is constructed, alias mode is on,  *)
(* the subprocess has written one line and terminated.                       *)

InitRewrite ==
    /\ port_table \in PortTables
    /\ keys_order \in KeyOrders(DOMAIN port_table)
    /\ mode = "alias"
    /\ port_dict = port_table
    /\ alias_max_length = MaxAliasLoop(port_table, keys_order, 0)
    /\ warnings = (IF DOMAIN port_table = {} THEN 1 ELSE 0)
    /\ pc = "alias_loop"
    /\ command \in {c \in Commands : ~StartsWith(c, C_intfutil)}
    /\ ncmds = 1
    /\ pipe \in {<<l>> : l \in RewriteLines}
    /\ proc_out = <<>>
    /\ proc_rc = 0
    /\ stdout = <<>>
    /\ exit_code = -1
    /\ base = 0
    /\ return_cmd = FALSE
    /\ call = NoCall
    /\ BgpIdle

NextRewrite == AliasReadLine \/ AliasEOF

SpecRewrite == InitRewrite /\ [][NextRewrite]_vars

----------------------------------------------------------------------------
(* The codec alone: the converter is constructed and a handler calls it.     *)

InitCodec ==
    /\ port_table \in PortTables
    /\ keys_order \in KeyOrders(DOMAIN port_table)
    /\ mode = "alias"
    /\ port_dict = port_table
    /\ alias_max_length = MaxAliasLoop(port_table, keys_order, 0)
    /\ warnings = (IF DOMAIN port_table = {} THEN 1 ELSE 0)
    /\ pc = "handler"
    /\ command = <<>>
    /\ ncmds = 0
    /\ pipe = <<>>
    /\ proc_out = <<>>
    /\ proc_rc = -1
    /\ stdout = <<>>
    /\ exit_code = -1
    /\ base = 0
    /\ return_cmd = FALSE
    /\ call = NoCall
    /\ BgpIdle

NextCodec ==
    \/ \E fn \in {"name_to_alias", "alias_to_name"}, arg \in CodecArgs : CodecCall(fn, arg)
    \/ HandlerReturn

SpecCodec == InitCodec /\ [][NextCodec]_vars

----------------------------------------------------------------------------
(* The read loop of run_command_in_alias_mode under scheduling: the converter *)
(* is constructed, alias mode is on, a handler runs commands that are not     *)
(* exempt.  The process is single-threaded and blocks only in readline(): a   *)
(* step of the loop that stays possible is taken (weak fairness); nothing     *)
(* obliges the subprocess to write or to exit.                                *)

InitLoop ==
    /\ port_table \in StreamTables
    /\ keys_order \in KeyOrders(DOMAIN port_table)
    /\ mode = "alias"
    /\ port_dict = port_table
    /\ alias_max_length = MaxAliasLoop(port_table, keys_order, 0)
    /\ warnings = (IF DOMAIN port_table = {} THEN 1 ELSE 0)
    /\ pc = "handler"
    /\ command = <<>>
    /\ ncmds = 0
    /\ pipe = <<>>
    /\ proc_out = <<>>
    /\ proc_rc = -1
    /\ stdout = <<>>
    /\ exit_code = -1
    /\ base = 0
    /\ return_cmd = FALSE
    /\ call = NoCall
    /\ BgpIdle

NextLoop ==
    \/ \E cmd \in {c \in StreamCommands : ~StartsWith(c, C_intfutil)}, d \in BOOLEAN :
           RunCommand(cmd, d, FALSE)
    \/ \E line \in StreamLines : SubprocWrite(line)
    \/ \E rc \in ExitCodes : SubprocExit(rc)
    \/ AliasReadLine
    \/ AliasEOF

\* ENABLED <<AliasReadLine>>_vars written out: the guard of AliasReadLine (the
\* action takes a line off the pipe whenever its guard holds)
CanReadLine == pc = "alias_loop" /\ pipe # <<>>

\* WF_vars(AliasReadLine) written out with CanReadLine
FairReadLine == []<>(~CanReadLine) \/ []<><<AliasReadLine>>_vars

SpecLoop == InitLoop /\ [][NextLoop]_vars /\ FairReadLine /\ WF_vars(AliasEOF)

----------------------------------------------------------------------------
(* The BGP summary: get_bgp_summary_extended loads the registries with        *)
(* get_bgp_neighbors_dict and resolves the address of each neighbor line.     *)

InitBgp ==
    /\ port_table = <<>>
    /\ keys_order = <<>>
    /\ mode = "default"
    /\ port_dict = <<>>
    /\ alias_max_length = 0
    /\ warnings = 1
    /\ pc = "bgp_summary"
    /\ command = <<>>
    /\ ncmds = 0
    /\ pipe = <<>>
    /\ proc_out = <<>>
    /\ proc_rc = -1
    /\ stdout = <<>>
    /\ exit_code = -1
    /\ base = 0
    /\ return_cmd = FALSE
    /\ call = NoCall
    /\ \E n \in NeighborTables, m \in MonitorTables, r \in PeerTables :
           config_db = [BGP_NEIGHBOR |-> n, BGP_MONITORS |-> m, BGP_PEER_RANGE |-> r]
    /\ peer_order \in KeyOrders(DOMAIN config_db.BGP_PEER_RANGE)
    /\ subnet_order \in KeyOrders(Subnets)
    /\ static_neighbors = <<>>
    /\ dynamic_neighbors = get_dynamic_neighbor_subnet(<<>>, <<>>)
    /\ bgp_call = NoBgpCall
    /\ command_output = <<>>
    /\ my_list = <<>>
    /\ modified_output = <<>>

\* static_neighbors, dynamic_neighbors = get_bgp_neighbors_dict();
\* modified_output = []; my_list = iter(command_output.splitlines())
GetBgpNeighborsDict ==
    /\ pc = "bgp_summary"
    /\ static_neighbors' = StaticNeighbors(config_db)
    /\ dynamic_neighbors' = get_dynamic_neighbor_subnet(config_db.BGP_PEER_RANGE, peer_order)
    /\ modified_output' = <<>>
    /\ my_list' = SplitLines(command_output)
    /\ pc' = "bgp_lines"
    /\ UNCHANGED <<cli_vars, exit_code, config_db, peer_order, subnet_order, bgp_call,
                   command_output>>

\* name = get_bgp_neighbor_ip_to_name(ip, static_neighbors, dynamic_neighbors);
\* an exception is not caught anywhere and ends the process with status 1
ResolveNeighbor(ip) ==
    /\ pc = "bgp_lines"
    /\ \E res \in {get_bgp_neighbor_ip_to_name(ip, static_neighbors, dynamic_neighbors)} :
           /\ bgp_call' = [ip |-> ip, res |-> res]
           /\ pc' = IF res.exc = "none" THEN pc ELSE "crashed"
           /\ exit_code' = IF res.exc = "none" THEN exit_code ELSE 1
    /\ UNCHANGED <<cli_vars, config_db, peer_order, subnet_order, static_neighbors,
                   dynamic_neighbors, command_output, my_list, modified_output>>

\* the summary is echoed and the handler returns
SummaryReturn ==
    /\ pc = "bgp_lines"
    /\ pc' = "exited"
    /\ exit_code' = 0
    /\ UNCHANGED <<cli_vars, bgp_vars>>

NextBgp ==
    \/ GetBgpNeighborsDict
    \/ \E ip \in BgpIps : ResolveNeighbor(ip)
    \/ SummaryReturn

SpecBgp == InitBgp /\ [][NextBgp]_vars

----------------------------------------------------------------------------
(* get_bgp_summary_extended on the output of a summary command: the          *)
(* registries are loaded, the for loop takes the lines one pass at a time,   *)
(* the lines appended are echoed.                                            *)

InitSummary ==
    /\ port_table = <<>>
    /\ keys_order = <<>>
    /\ mode = "default"
    /\ port_dict = <<>>
    /\ alias_max_length = 0
    /\ warnings = 1
    /\ pc = "bgp_summary"
    /\ command = <<>>
    /\ ncmds = 0
    /\ pipe = <<>>
    /\ proc_out = <<>>
    /\ proc_rc = -1
    /\ stdout = <<>>
    /\ exit_code = -1
    /\ base = 0
    /\ return_cmd = FALSE
    /\ call = NoCall
    /\ \E n \in NeighborTables :
           config_db = [BGP_NEIGHBOR |-> n, BGP_MONITORS |-> <<>>, BGP_PEER_RANGE |-> <<>>]
    /\ peer_order = <<>>
    /\ subnet_order = <<>>
    /\ static_neighbors = <<>>
    /\ dynamic_neighbors = get_dynamic_neighbor_subnet(<<>>, <<>>)
    /\ bgp_call = NoBgpCall
    /\ command_output \in SummaryTexts
    /\ my_list = <<>>
    /\ modified_output = <<>>

\* one pass of 'for element in my_list'; an exception is not caught in the
\* function and ends the process with status 1
SummaryLine ==
    /\ pc = "bgp_lines"
    /\ my_list # <<>>
    /\ \E p \in {LoopPass(Head(my_list), Tail(my_list), static_neighbors,
                           dynamic_neighbors, bgp_call)} :
           /\ bgp_call' = p.call
           /\ modified_output' = modified_output \o p.lines
           /\ my_list' = p.rest
           /\ pc' = IF p.exc = "none" THEN pc ELSE "crashed"
           /\ exit_code' = IF p.exc = "none" THEN exit_code ELSE 1
    /\ UNCHANGED <<cli_vars, config_db, peer_order, subnet_order, static_neighbors,
                   dynamic_neighbors, command_output>>

\* the iterator is exhausted: click.echo("\n".join(modified_output)) and the
\* function returns
SummaryEcho ==
    /\ pc = "bgp_lines"
    /\ my_list = <<>>
    /\ stdout' = stdout \o (IF modified_output = <<>> THEN <<<<>>>> ELSE modified_output)
    /\ pc' = "exited"
    /\ exit_code' = 0
    /\ UNCHANGED <<port_table, keys_order, mode, port_dict, alias_max_length, warnings,
                   command, ncmds, pipe, proc_out, proc_rc, base, return_cmd, call,
                   bgp_vars>>

NextSummary ==
    \/ GetBgpNeighborsDict
    \/ SummaryLine
    \/ SummaryEcho

SpecSummary == InitSummary /\ [][NextSummary]_vars

----------------------------------------------------------------------------
(* Claims *)

\* the latest run_command call took the alias path
AliasRun ==
    /\ get_interface_mode = "alias"
    /\ ncmds > 0
    /\ ~StartsWith(command, C_intfutil)

\* C1: in alias mode, when the wrapped subprocess has terminated with code rc
\* and the process has ended, the process has ended with exactly rc, whatever
\* lines the subprocess wrote
C1_ExitCodePropagation ==
    (AliasRun /\ pc \in {"exited", "crashed"} /\ proc_rc # -1) => exit_code = proc_rc

\* C2: in alias mode the lines forwarded by the rewriter are, at every moment,
\* as many as the lines read from the subprocess, in the same order: the k-th
\* forwarded line is the rewriting of the k-th line read
C2_LineOrdering ==
    (AliasRun /\ pc \in {"alias_loop", "exited", "crashed"}) =>
        /\ Len(stdout) = base + Len(proc_out)
        /\ \A k \in 1..Len(proc_out) :
              Ok(stdout[base + k]) = RewriteLine(command, proc_out[k])

\* the aliases present in the directory
AliasesOf(d) == {d[p].alias : p \in {q \in DOMAIN d : HasAlias(d[q])}}

\* no alias equals another port's alias or a canonical name
NoCollision(d) ==
    /\ \A p, q \in DOMAIN d :
          (p # q /\ HasAlias(d[p]) /\ HasAlias(d[q])) => d[p].alias # d[q].alias
    /\ \A p \in DOMAIN d : HasAlias(d[p]) => d[p].alias \notin DOMAIN d

\* no canonical name and no alias contains the sub-interface separator, which
\* is a reserved character
SeparatorFree(d) ==
    \A p \in DOMAIN d :
        /\ ~Contains(p, <<VLAN_SUB_INTERFACE_SEPARATOR>>)
        /\ HasAlias(d[p]) => ~Contains(d[p].alias, <<VLAN_SUB_INTERFACE_SEPARATOR>>)

\* C3: in a loaded directory without collisions (and without the reserved
\* separator inside a name or an alias), a call of name_to_alias on the
\* canonical name of a record returns an alias that alias_to_name takes back to
\* the canonical name, and a call of alias_to_name on the alias of a record
\* returns a name that name_to_alias takes back to the alias
C3_RoundTrip ==
    (NoCollision(port_dict) /\ SeparatorFree(port_dict)) =>
        /\ (call.fn = "name_to_alias" /\ call.arg \in DOMAIN port_dict) =>
               (call.res.exc = "none" /\ alias_to_name(call.res.val) = Ok(call.arg))
        /\ (call.fn = "alias_to_name" /\ call.arg \in AliasesOf(port_dict)) =>
               (call.res.exc = "none" /\ name_to_alias(call.res.val) = Ok(call.arg))

\* the string x.s
Sub(x, v) == x \o <<VLAN_SUB_INTERFACE_SEPARATOR>> \o v

\* C4: for every known port P with alias A and every suffix s,
\* name_to_alias(P.s) = A.s and alias_to_name(A.s) = P.s (in a directory
\* without collisions and without the separator inside a name or an alias)
C4_SubInterface ==
    (NoCollision(port_dict) /\ SeparatorFree(port_dict)) =>
        \A p \in DOMAIN port_dict : \A v \in Suffixes :
            HasAlias(port_dict[p]) =>
                /\ (call.fn = "name_to_alias" /\ call.arg = Sub(p, v)) =>
                       call.res = Ok(Sub(port_dict[p].alias, v))
                /\ (call.fn = "alias_to_name" /\ call.arg = Sub(port_dict[p].alias, v)) =>
                       call.res = Ok(Sub(p, v))

\* the part of x before the first separator, the whole of x without one
Stem(x) ==
    IF Find(x, <<VLAN_SUB_INTERFACE_SEPARATOR>>) = -1 THEN x
    ELSE Take(x, Find(x, <<VLAN_SUB_INTERFACE_SEPARATOR>>))

\* C5: a call of name_to_alias whose stem is no canonical name, and a call of
\* alias_to_name whose stem is no alias, returns its argument unchanged
C5_UnknownIdentity ==
    /\ (call.fn = "name_to_alias" /\ call.arg # PyNone
            /\ Stem(call.arg) \notin DOMAIN port_dict) => call.res = Ok(call.arg)
    /\ (call.fn = "alias_to_name" /\ call.arg # PyNone
            /\ Stem(call.arg) \notin AliasesOf(port_dict)) => call.res = Ok(call.arg)

\* C6: every call of name_to_alias returns: the alias of the matching record,
\* the canonical name itself when that record has no alias, or the argument
\* unchanged
C6_NameToAliasTotal ==
    (call.fn = "name_to_alias" /\ call.arg # PyNone) =>
        /\ call.res.exc = "none"
        /\ LET p == Stem(call.arg)
               tr == IF p \notin DOMAIN port_dict THEN p
                     ELSE IF HasAlias(port_dict[p]) THEN port_dict[p].alias
                     ELSE p
           IN  call.res.val = (IF p = call.arg THEN tr
                               ELSE Sub(tr, Drop(call.arg, Len(p) + 1)))

\* every record of the directory has an alias
AllAliased(d) == \A p \in DOMAIN d : HasAlias(d[p])

\* one line has been read in alias mode under the profile set profs
ReadOne(profs) ==
    /\ AliasRun
    /\ Profile(command) \in profs
    /\ pc \in {"alias_loop", "crashed"}
    /\ Len(proc_out) = 1

PositionalProfiles ==
    {"portstat", "intfstat", "pfcstat", "eeprom", "sfputil", "lldpshow", "queuestat",
     "fdbshow", "nbrshow"}

\* 1-based position of the first character of the word number idx (0-based) of
\* s, 0 when s has fewer words
RECURSIVE WordStartFrom(_, _, _)
WordStartFrom(s, k, idx) ==
    IF k > Len(s) THEN 0
    ELSE IF s[k] \in Whitespace THEN WordStartFrom(s, k + 1, idx)
    ELSE IF idx = 0 THEN k
    ELSE LET ends == {e \in k..Len(s) : s[e] \in Whitespace}
         IN  IF ends = {} THEN 0
             ELSE WordStartFrom(s, CHOOSE e \in ends : \A f \in ends : e <= f, idx - 1)

WordStart(s, idx) == WordStartFrom(s, 1, idx)

\* s with the n characters from position k replaced by new
ReplaceAt(s, k, n, new) == SubSeq(s, 1, k - 1) \o new \o SubSeq(s, k + n, Len(s))

\* aliases the regular-expression passes can insert literally and that are not
\* themselves taken for a name by a later pass
PlainAliases(d) ==
    /\ AllAliased(d)
    /\ \A p \in DOMAIN d : d[p].alias # <<>> /\ ~BadTemplate(d[p].alias)
    /\ NoCollision(d) /\ SeparatorFree(d)

\* the words of s that read n, alone or followed by ':'
CellsNamed(s, n) == {i \in 1..Len(Split(s)) : Split(s)[i] \in {n, n \o <<":">>}}

\* C7: positional strategy with N and N' known, N a proper prefix of N': when
\* the cell at field_index is one of them (and no other cell is), the forwarded
\* line is the line with that cell's name replaced by the (padded) alias and
\* every other character, occurrences of the other name included, unaltered
C7_PositionalNoCollision ==
    (ReadOne(PositionalProfiles) /\ {E1, E10} \subseteq DOMAIN port_dict
       /\ PlainAliases(port_dict)) =>
        LET prof == Profile(command)
            prep == Prepared(prof, proc_out[1])
            adj == IF prep.exc = "none" THEN AdjustUnderline(prep.val, FieldIndex(prof))
                   ELSE prep
            k == IF adj.exc = "none" THEN WordStart(adj.val, FieldIndex(prof)) ELSE 0
        IN  \A n \in {E1, E10} :
               (k # 0 /\ CellsNamed(adj.val, n) = {FieldIndex(prof) + 1}) =>
                   /\ pc = "alias_loop"
                   /\ stdout[base + 1] =
                         RStripNL(ReplaceAt(adj.val, k, Len(n), PadAlias(port_dict[n].alias)))

\* the alias a name is to be shown as: its alias, the name itself without one
ShownAs(n) == IF HasAlias(port_dict[n]) THEN port_dict[n].alias ELSE n

\* s continues at position k with one of the team status markers
MarkerAt(s, k) ==
    \E m \in {<<"(", "D", ")">>, <<"(", "S", ")">>, <<"(", "D", "*", ")">>,
              <<"(", "S", "*", ")">>} : OccursAt(s, m, k)

\* end of line, or whitespace, at position k
EolOrWs(s, k) == k = Len(s) + 1 \/ IsWs(s, k)

\* the known name n stands at position k of s, at line start or after
\* whitespace, and is followed as the family requires
Qualifies(kind, s, k, n) ==
    /\ OccursAt(s, n, k)
    /\ (k = 1 \/ IsWs(s, k - 1))
    /\ IF kind = "team"
       THEN MarkerAt(s, k + Len(n)) \/ EolOrWs(s, k + Len(n))
       ELSE EolOrWs(s, k + Len(n)) \/ CharIs(s, k + Len(n), {","})

\* s from position k on with every qualifying occurrence of a known name
\* replaced by its alias
RECURSIVE ExpectedFrom(_, _, _)
ExpectedFrom(kind, s, k) ==
    IF k > Len(s) THEN <<>>
    ELSE LET q == {n \in DOMAIN port_dict : Qualifies(kind, s, k, n)}
         IN  IF q = {} THEN <<s[k]>> \o ExpectedFrom(kind, s, k + 1)
             ELSE LET n == CHOOSE x \in q : TRUE
                  IN  ShownAs(n) \o ExpectedFrom(kind, s, k + Len(n))

\* C9: team family: every occurrence of a known name at line start or after
\* whitespace and followed by a status marker, end of line or whitespace is
\* replaced by its alias in the forwarded line, the marker kept
C9_TeamRewriting ==
    (ReadOne({"team"}) /\ PlainAliases(port_dict)) =>
        /\ pc = "alias_loop"
        /\ stdout[base + 1] = RStripNL(ExpectedFrom("team", proc_out[1], 1))

\* C10: default family: every occurrence of a known name at line start or
\* after whitespace and followed by end of line, a comma or whitespace is
\* replaced by its alias in the forwarded line, also when occurrences are
\* separated by one whitespace character
C10_DefaultRewriting ==
    (ReadOne({"default"}) /\ PlainAliases(port_dict)) =>
        /\ pc = "alias_loop"
        /\ stdout[base + 1] = RStripNL(ExpectedFrom("default", proc_out[1], 1))

\* x is a proper prefix of y
ProperPrefix(x, y) == Len(x) < Len(y) /\ StartsWith(y, x)

\* the text the pass of the name number idx of keys_order works on: the line
\* after the passes of the names before it
PassInput(kind, idx, raw_output) == SubLoop(kind, SubSeq(keys_order, 1, idx - 1), raw_output)

\* C8: in the team and default branches, the pass of a known name N matches
\* only where N stands at line start or after whitespace and is followed by the
\* branch's trailing boundary, and never on the N-prefix of an occurrence of a
\* known name N' of which N is a proper prefix
C8_RegexNoCollision ==
    ReadOne({"team", "default"}) =>
        \A idx \in 1..Len(keys_order) :
            LET kind == Profile(command)
                n == keys_order[idx]
                inp == PassInput(kind, idx, proc_out[1])
            IN  inp.exc = "none" =>
                  \A i \in MatchStarts(kind, inp.val, n, 1) :
                     LET m == MatchAt(kind, inp.val, n, i)
                         after == m.from + Len(n)
                     IN  /\ m.from = 1 \/ IsWs(inp.val, m.from - 1)
                         /\ IF kind = "team" THEN CharIs(inp.val, after, {"("})
                            ELSE AtDollar(inp.val, after) \/ IsWs(inp.val, after)
                                 \/ CharIs(inp.val, after, {","})
                         /\ \A n2 \in DOMAIN port_dict :
                               ProperPrefix(n, n2) => ~OccursAt(inp.val, n2, m.from)

\* C8 witness: both names are known with their own aliases, a line holding the
\* longer name has been rewritten by a regular-expression branch, and the
\* forwarded line shows the longer name's alias where the longer name stood
C8_Witness ==
    /\ ReadOne({"team", "default"})
    /\ pc = "alias_loop"
    /\ {E1, E10} \subseteq DOMAIN port_dict
    /\ PlainAliases(port_dict)
    /\ StartsWith(proc_out[1], E10)
    /\ Len(stdout) = base + 1
    /\ StartsWith(stdout[base + 1], port_dict[E10].alias)
    /\ ~StartsWith(stdout[base + 1], port_dict[E1].alias \o <<"0">>)

\* C11: when the PORT table is empty the directory is empty, the construction
\* has not aborted (one warning is written), and under every command family the
\* line forwarded for a line read is the line itself
C11_EmptyPassThrough ==
    (DOMAIN port_table = {} /\ pc \notin {"import"}) =>
        /\ port_dict = <<>>
        /\ alias_max_length = 0
        /\ warnings = 1
        /\ ReadOne(PositionalProfiles \cup {"team", "default"}) =>
               /\ pc = "alias_loop"
               /\ stdout[base + 1] = RStripNL(proc_out[1])

\* the greatest length of a string of the set, 0 for the empty set
MaxLength(strings) ==
    IF strings = {} THEN 0
    ELSE CHOOSE n \in {Len(a) : a \in strings} : \A a \in strings : Len(a) <= n

\* C12: once the converter is constructed, alias_max_length is the greatest
\* length of an alias present in the PORT table (0 without any), whatever the
\* order of iteration and also when some records have no alias
C12_MaxAliasWidth ==
    pc # "import" => alias_max_length = MaxLength(AliasesOf(port_table))

\* C13 as claimed: get_interface_mode returns "alias" when the variable is
\* exactly "alias" and "default" for every other value and when it is unset
C13_ModeSelectorTwoValued ==
    call.fn = "get_interface_mode" =>
        call.res = Ok(IF mode = "alias" THEN "alias" ELSE "default")

\* C13: get_interface_mode returns "default" when the variable is unset and the
\* value of the variable otherwise, so "alias" exactly when it is "alias"
C13_ModeSelector ==
    call.fn = "get_interface_mode" =>
        /\ call.res.exc = "none"
        /\ mode = "unset" => call.res.val = "default"
        /\ mode # "unset" => call.res.val = mode
        /\ call.res.val = "alias" <=> mode = "alias"

\* C13 witness: the handler has echoed the mode with the variable unset
C13_Witness ==
    call.fn = "get_interface_mode" /\ mode = "unset" /\ call.res.val = "default"

\* C14: when the mode is not "alias", or the command starts with "intfutil",
\* run_command runs the command directly: the rewriter is never entered and
\* every line printed is the line read from the subprocess without its final
\* newline (nothing is printed when the output is returned to the caller)
C14_Bypass ==
    (ncmds > 0 /\ (get_interface_mode # "alias" \/ StartsWith(command, C_intfutil))) =>
        /\ pc # "alias_loop"
        /\ IF return_cmd THEN Len(stdout) = base
           ELSE /\ Len(stdout) = base + Len(proc_out)
                /\ \A k \in 1..Len(proc_out) : stdout[base + k] = RStripNL(proc_out[k])

\* C14 witness: in alias mode an intfutil command has printed a line that
\* names a port of the directory, and the name stands as the subprocess wrote it
C14_Witness ==
    /\ mode = "alias"
    /\ StartsWith(command, C_intfutil)
    /\ ~return_cmd
    /\ E1 \in DOMAIN port_dict
    /\ Len(proc_out) >= 1
    /\ Len(stdout) = base + Len(proc_out)
    /\ proc_out[1] = E1 \o NL
    /\ stdout[base + 1] = E1

\* get_bgp_neighbor_ip_to_name has been called after the registries were loaded
Resolved == pc \in {"bgp_lines", "crashed", "exited"} /\ bgp_call # NoBgpCall

\* C15: for an address that is a key of the static registry the call returns
\* the static name, whatever BGP_PEER_RANGE holds
C15_StaticPrecedence ==
    (Resolved /\ bgp_call.ip \in DOMAIN static_neighbors) =>
        bgp_call.res = Ok(static_neighbors[bgp_call.ip])

\* the subnets of BGP_PEER_RANGE that contain the address ip of the family
SubnetsHolding(family, ip) ==
    {n \in {config_db.BGP_PEER_RANGE[e].ip_range[1] : e \in DOMAIN config_db.BGP_PEER_RANGE} :
        /\ AddressOf(family, ip).exc = "none"
        /\ NetworkOf(family, n).exc = "none"
        /\ InNetwork(AddressOf(family, ip).val, NetworkOf(family, n).val, GroupWidth(family))}

\* C15 witness: an address of the static registry that lies inside a subnet of
\* BGP_PEER_RANGE has been resolved to its static name
C15_Witness ==
    /\ Resolved
    /\ bgp_call.ip = IP_1001
    /\ IP_1001 \in DOMAIN static_neighbors
    /\ Net24 \in SubnetsHolding("v4", IP_1001)
    /\ bgp_call.res = Ok(<<"l", "1">>)

\* the family an address text parses as, "none" when it parses as neither
FamilyOf(ip) ==
    IF IPv4Address(ip).exc = "none" THEN "v4"
    ELSE IF IPv6Address(ip).exc = "none" THEN "v6"
    ELSE "none"

\* every record of BGP_PEER_RANGE has a name, a range and a source address
CompletePeers ==
    \A e \in DOMAIN config_db.BGP_PEER_RANGE :
        {"name", "ip_range", "src_address"} \subseteq DOMAIN config_db.BGP_PEER_RANGE[e]

\* the dynamic map of a family as BGP_PEER_RANGE defines it: subnet -> name for
\* the records whose source address is of the family
DynamicMapOf(family) ==
    LET recs == {config_db.BGP_PEER_RANGE[e] : e \in
                   {x \in DOMAIN config_db.BGP_PEER_RANGE :
                       FamilyOf(config_db.BGP_PEER_RANGE[x].src_address) = family}}
    IN  [n \in {rec.ip_range[1] : rec \in recs} |->
            (CHOOSE rec \in recs : rec.ip_range[1] = n).name]

\* the subnets of the family's dynamic map that contain ip, in the order the
\* map iterates
HoldingInOrder(family, ip) ==
    SelectSeq(subnet_order,
              LAMBDA n : n \in DOMAIN DynamicMapOf(family) /\ n \in SubnetsHolding(family, ip))

\* C16: an address that is not in the static registry and parses as IPv4 (IPv6)
\* resolves to the name of the first subnet of the v4 (v6) dynamic map, in the
\* order the map iterates, that contains it
C16_DynamicContainment ==
    (Resolved /\ CompletePeers /\ bgp_call.ip \notin DOMAIN static_neighbors
       /\ FamilyOf(bgp_call.ip) # "none"
       /\ HoldingInOrder(FamilyOf(bgp_call.ip), bgp_call.ip) # <<>>) =>
        bgp_call.res =
            Ok(DynamicMapOf(FamilyOf(bgp_call.ip))[
                   Head(HoldingInOrder(FamilyOf(bgp_call.ip), bgp_call.ip))])

\* C17: an address of either family that is not in the static registry and lies
\* in no subnet of the dynamic map of its family resolves to "NotAvailable"
C17_NoMatchSentinel ==
    (Resolved /\ CompletePeers /\ bgp_call.ip \notin DOMAIN static_neighbors
       /\ FamilyOf(bgp_call.ip) # "none"
       /\ HoldingInOrder(FamilyOf(bgp_call.ip), bgp_call.ip) = <<>>) =>
        bgp_call.res = Ok(NotAvailable)

\* the names the registries can give
KnownNames ==
    {static_neighbors[k] : k \in DOMAIN static_neighbors}
    \cup {config_db.BGP_PEER_RANGE[e].name :
             e \in {x \in DOMAIN config_db.BGP_PEER_RANGE :
                       "name" \in DOMAIN config_db.BGP_PEER_RANGE[x]}}

\* C18: every call returns, with a name of the registries or "NotAvailable",
\* and with "NotAvailable" for a text that parses as neither family (and is no
\* key of the static registry)
C18_NeverRaises ==
    Resolved =>
        /\ bgp_call.res.exc = "none"
        /\ bgp_call.res.val \in KnownNames \cup {NotAvailable}
        /\ (FamilyOf(bgp_call.ip) = "none" /\ bgp_call.ip \notin DOMAIN static_neighbors)
               => bgp_call.res.val = NotAvailable

\* the registries have been loaded by get_bgp_neighbors_dict
Loaded == pc \in {"bgp_lines", "crashed", "exited"}

\* the name a table gives a key: the record's name, "NotAvailable" without one
NameIn(table, k) == IF "name" \in DOMAIN table[k] THEN table[k].name ELSE NotAvailable

\* C19: the keys of the static registry are the keys of BGP_NEIGHBOR and of
\* BGP_MONITORS; a key of BGP_MONITORS has the name BGP_MONITORS gives it, any
\* other key the name BGP_NEIGHBOR gives it; a record without a name gives
\* "NotAvailable"
C19_StaticRegistry ==
    Loaded =>
        /\ DOMAIN static_neighbors
              = DOMAIN config_db.BGP_NEIGHBOR \cup DOMAIN config_db.BGP_MONITORS
        /\ \A k \in DOMAIN config_db.BGP_MONITORS :
              static_neighbors[k] = NameIn(config_db.BGP_MONITORS, k)
        /\ \A k \in DOMAIN config_db.BGP_NEIGHBOR \ DOMAIN config_db.BGP_MONITORS :
              static_neighbors[k] = NameIn(config_db.BGP_NEIGHBOR, k)

\* C19 witness: an address is in both tables with two names, another is in
\* BGP_NEIGHBOR alone without a name, and the registry has the BGP_MONITORS name
\* for the first and "NotAvailable" for the second
C19_Witness ==
    /\ Loaded
    /\ IP_1001 \in DOMAIN config_db.BGP_NEIGHBOR
    /\ IP_1001 \in DOMAIN config_db.BGP_MONITORS
    /\ NameIn(config_db.BGP_NEIGHBOR, IP_1001) = <<"l", "1">>
    /\ static_neighbors[IP_1001] = <<"m", "1">>
    /\ IP_v6 \in DOMAIN config_db.BGP_NEIGHBOR
    /\ static_neighbors[IP_v6] = NotAvailable

\* C20: the dynamic registry is a v4 map and a v6 map; each record of
\* BGP_PEER_RANGE is in the map of the family of its src_address, and a record
\* whose src_address is of neither family is in neither map and does not
\* disturb the others
C20_DynamicRegistry ==
    (Loaded /\ CompletePeers) =>
        /\ dynamic_neighbors.kind = "maps"
        /\ dynamic_neighbors.v4 = DynamicMapOf("v4")
        /\ dynamic_neighbors.v6 = DynamicMapOf("v6")

\* the profiles in their fixed order: the name of the profile, whether its
\* matcher asks for the exact command or for a prefix, and the text it asks for
ProfileTable ==
    <<[prof |-> "portstat", exact |-> FALSE, text |-> C_portstat],
      [prof |-> "intfstat", exact |-> FALSE, text |-> C_intfstat],
      [prof |-> "pfcstat", exact |-> TRUE, text |-> C_pfcstat],
      [prof |-> "eeprom", exact |-> FALSE, text |-> C_sfputil_show_eeprom],
      [prof |-> "sfputil", exact |-> FALSE, text |-> C_sfputil_show],
      [prof |-> "lldpshow", exact |-> TRUE, text |-> C_lldpshow],
      [prof |-> "queuestat", exact |-> FALSE, text |-> C_queuestat],
      [prof |-> "fdbshow", exact |-> TRUE, text |-> C_fdbshow],
      [prof |-> "nbrshow", exact |-> FALSE, text |-> C_nbrshow],
      [prof |-> "team", exact |-> FALSE, text |-> C_teamshow]>>

\* the matcher of an entry of the table accepts the command
Accepts(entry, cmd) ==
    IF entry.exact THEN cmd = entry.text ELSE StartsWith(cmd, entry.text)

\* the entries of the table whose matcher accepts the command
Accepting(cmd) == {i \in 1..Len(ProfileTable) : Accepts(ProfileTable[i], cmd)}

\* the profile of the first accepting entry, the default profile without one
FirstAccepting(cmd) ==
    IF Accepting(cmd) = {} THEN "default"
    ELSE ProfileTable[CHOOSE i \in Accepting(cmd) : \A j \in Accepting(cmd) : i <= j].prof

\* C21: every line read in alias mode is processed by one profile, the first
\* of the table whose matcher accepts the command (the default one when none
\* does), the same for every line of the invocation: what is forwarded for the
\* line, or the failure on it, is that profile's
C21_ProfileDispatch ==
    (AliasRun /\ pc \in {"alias_loop", "exited", "crashed"}) =>
        \A k \in 1..Len(proc_out) :
            IF base + k <= Len(stdout)
            THEN RewriteProfile(FirstAccepting(command), proc_out[k]) = Ok(stdout[base + k])
            ELSE /\ pc = "crashed"
                 /\ k = Len(proc_out)
                 /\ RewriteProfile(FirstAccepting(command), proc_out[k]).exc # "none"

\* C21 witness: a command that two matchers accept, 'sudo sfputil show eeprom',
\* has had an indented line with a known name processed by the first of them:
\* the line is forwarded with its indentation, which the second would strip
C21_Witness ==
    /\ AliasRun
    /\ command = C_sfputil_show_eeprom
    /\ Cardinality(Accepting(command)) = 2
    /\ pc = "alias_loop"
    /\ proc_out = <<SP \o E1 \o NL>>
    /\ E1 \in DOMAIN port_dict
    /\ HasAlias(port_dict[E1])
    /\ port_dict[E1].alias = <<"p", "1">>
    /\ alias_max_length = 2
    /\ stdout = <<SP \o <<"p", "1">>>>

\* the greater of two numbers
Max(a, b) == IF a < b THEN b ELSE a

\* the line print_output_in_alias_mode looks the cell up in: the line the
\* branch hands over, after the adjustment of a "---" line
CellLine(prof, raw_output) ==
    IF Prepared(prof, raw_output).exc # "none" THEN Prepared(prof, raw_output)
    ELSE AdjustUnderline(Prepared(prof, raw_output).val, FieldIndex(prof))

\* line with the name n at position k replaced by its alias, right-justified
\* to the width of the column
WithPaddedAlias(line, k, n) ==
    ReplaceAt(line, k, Len(n),
              RJust(port_dict[n].alias, Max(Len(port_dict[n].alias), alias_max_length), " "))

\* C22: positional strategy: when the token at field_index is a known name
\* with alias A, the forwarded line is the line with that token's name
\* replaced by A right-justified to max(len(A), max_alias_width), and nothing
\* else is replaced
C22_DataCellPadding ==
    ReadOne(PositionalProfiles) =>
        LET prof == Profile(command)
            line == CellLine(prof, proc_out[1])
            tok == IF line.exc = "none" THEN FieldToken(line.val, FieldIndex(prof)) ELSE line
            k == IF line.exc = "none" THEN WordStart(line.val, FieldIndex(prof)) ELSE 0
        IN  (/\ tok.exc = "none"
             /\ tok.val \in DOMAIN port_dict
             /\ HasAlias(port_dict[tok.val])
             /\ OccursAt(line.val, tok.val, k)) =>
                /\ pc = "alias_loop"
                /\ stdout[base + 1] = RStripNL(WithPaddedAlias(line.val, k, tok.val))

\* C23: once InterfaceAliasConverter.__init__ has returned, no step of the
\* process (codec call, handler, run_command, read loop, rewriting of a line)
\* changes port_dict or alias_max_length
C23_DirectoryImmutable ==
    [][pc # "import" => (port_dict' = port_dict /\ alias_max_length' = alias_max_length)]_vars

\* C23 witness: with a directory of two records the codec has been called and
\* a command has had two lines rewritten in alias mode, and the directory is
\* the table read at construction with the width measured then
C23_Witness ==
    /\ pc = "exited"
    /\ AliasRun
    /\ Len(proc_out) = 2
    /\ Len(stdout) = base + 2
    /\ call.fn = "name_to_alias"
    /\ Cardinality(DOMAIN port_dict) = 2
    /\ port_dict = port_table
    /\ alias_max_length = 2

\* C25: the warning about the PORT table is written once, by the construction
\* of the converter, when the table is empty or missing, and never when it has
\* a record, whatever runs afterwards
C25_WarningOnce ==
    warnings = (IF pc # "import" /\ DOMAIN port_table = {} THEN 1 ELSE 0)

\* C25 witness: with an empty PORT table two commands have run, the second in
\* alias mode with two lines forwarded, and one warning has been written
C25_Witness ==
    /\ pc = "exited"
    /\ DOMAIN port_table = {}
    /\ AliasRun
    /\ ncmds = 2
    /\ Len(proc_out) = 2
    /\ Len(stdout) = base + 2
    /\ warnings = 1

\* the positional profiles that pad a column header to the width of the column
HeaderProfiles == {"portstat", "intfstat", "pfcstat", "sfputil", "lldpshow", "queuestat"}

\* the header tokens a profile looks for at the start of a line
HeaderTokens(prof) ==
    IF prof \in {"portstat", "intfstat"} THEN {S_IFACE}
    ELSE IF prof = "pfcstat" THEN {S_PortTx, S_PortRx}
    ELSE IF prof = "lldpshow" THEN {S_LocalPort}
    ELSE {S_Port}

\* widths of the name column's underline in the output of the wrapped command
DashWidths == {3, 4, 6}

\* the width of the header cell in the line forwarded for a header line: from
\* the start of the line to the end of the header token
HeaderCellWidth(prof, h) ==
    LET out == RewriteProfile(prof, h \o SP \o <<"x">> \o NL)
    IN  IF out.exc # "none" THEN -1 ELSE Find(out.val, h) + Len(h)

\* the width of the name column's cell in the line forwarded for an underline
\* whose first cell has d dashes
SeparatorCellWidth(prof, d) ==
    LET out == RewriteProfile(prof, Repeat("-", d) \o SP \o S_Dashes \o NL)
    IN  IF out.exc # "none" THEN -1 ELSE Len(Split(out.val)[1])

\* a line whose first cell is a known name with a (non-empty) alias has been
\* rewritten by one of the profiles with a header
DataCellRewritten ==
    /\ ReadOne(HeaderProfiles)
    /\ pc = "alias_loop"
    /\ CellLine(Profile(command), proc_out[1]).exc = "none"
    /\ FieldToken(CellLine(Profile(command), proc_out[1]).val, 0).exc = "none"
    /\ FieldToken(CellLine(Profile(command), proc_out[1]).val, 0).val \in DOMAIN port_dict
    /\ HasAlias(port_dict[FieldToken(CellLine(Profile(command), proc_out[1]).val, 0).val])
    /\ port_dict[FieldToken(CellLine(Profile(command), proc_out[1]).val, 0).val].alias # <<>>

\* the width of the text that stands for the name in the forwarded data line
DataCellWidth ==
    Len(stdout[base + 1]) - Len(RStripNL(CellLine(Profile(command), proc_out[1]).val))
        + Len(FieldToken(CellLine(Profile(command), proc_out[1]).val, 0).val)

\* C24: in the positional families with a header, a header token at the start
\* of a line is padded to max_alias_width, and the header cell, the cell of
\* the "---" underline and a rewritten data cell of the name column have the
\* same width, whatever max_alias_width and the width of the original column
C24_ColumnAlignment ==
    DataCellRewritten =>
        /\ \A h \in HeaderTokens(Profile(command)) :
              /\ HeaderCellWidth(Profile(command), h) = Max(Len(h), alias_max_length)
              /\ HeaderCellWidth(Profile(command), h) = DataCellWidth
        /\ \A d \in DashWidths : SeparatorCellWidth(Profile(command), d) = DataCellWidth

\* C26, alias mode: from the read loop of the rewriter the process never gets
\* back to the handler and no further command is run; when the loop ends the
\* process exits with the exit code of the subprocess (0 included)
AliasNeverReturns ==
    pc = "alias_loop" =>
        /\ pc' \in {"alias_loop", "exited", "crashed"}
        /\ ncmds' = ncmds
        /\ command' = command
        /\ pc' = "exited" => (pipe = <<>> /\ proc_rc # -1 /\ exit_code' = proc_rc)

\* C26, direct path: the call returns to the handler after a zero exit code
\* (and when the output is returned to the caller), and ends the process with
\* the exit code otherwise
DirectReturns ==
    (pc = "direct_loop" /\ pc' # "direct_loop") =>
        /\ proc_rc # -1
        /\ IF proc_rc = 0 \/ return_cmd THEN pc' = "handler" /\ exit_code' = exit_code
           ELSE pc' = "exited" /\ exit_code' = proc_rc

\* C26: in alias mode run_command does not return for a command that is not
\* exempt: the process ends when the first such command has finished, with
\* the exit code of the subprocess or 0, and the commands the handler has
\* after it are not run; on the direct path each call returns after a zero
\* exit code and the handler goes on to its next command
C26_AliasModeNeverReturns ==
    /\ [](ncmds > 0 => (pc = "alias_loop" <=> (InAliasMode(command) /\ pc \notin {"exited", "crashed"})))
    /\ []((ncmds > 0 /\ InAliasMode(command)) => pc \in {"alias_loop", "exited", "crashed"})
    /\ [][AliasNeverReturns /\ DirectReturns]_vars

\* C26 witness: in alias mode the first of the handler's commands has finished
\* with exit code 0 after two lines and the process has exited with 0, the
\* handler's second command not run
C26_Witness ==
    /\ pc = "exited"
    /\ ncmds = 1
    /\ ncmds < MaxCommands
    /\ InAliasMode(command)
    /\ Len(proc_out) = 2
    /\ Len(stdout) = base + 2
    /\ proc_rc = 0
    /\ exit_code = 0

\* C27: whatever the shape of a line read in alias mode (blank, fewer cells
\* than field_index + 1, a "---" line with too few cells), under every command
\* family the loop body forwards one line for it and the loop goes on (the
\* directory being one whose every record has a plain alias)
C27_NeverAbortsOnShape ==
    (ReadOne(PositionalProfiles \cup {"team", "default"}) /\ PlainAliases(port_dict)) =>
        /\ pc = "alias_loop"
        /\ exit_code = -1
        /\ Len(stdout) = base + 1

\* C28, only if: the read loop is left through its end only when no line is
\* left to read and the subprocess has exited; every line the subprocess wrote
\* has then been read and forwarded, and the exit code is propagated after that
LoopEndsAtEOF ==
    (pc = "alias_loop" /\ pc' = "exited") =>
        /\ pipe = <<>>
        /\ proc_rc # -1
        /\ Len(stdout) = base + Len(proc_out)
        /\ stdout' = stdout
        /\ exit_code' = proc_rc

\* C28: the read loop ends exactly when the output of the subprocess is at
\* end-of-file and the subprocess has exited: it does not end before, it ends
\* once that is the case, and once the subprocess has exited the loop is
\* eventually left, every line written having been forwarded before the
\* exit code is propagated
C28_ReadLoopTermination ==
    /\ [][LoopEndsAtEOF]_vars
    /\ [](pc = "alias_loop" /\ proc_rc = -1 => ~ENABLED AliasEOF)
    /\ (pc = "alias_loop" /\ pipe = <<>> /\ proc_rc # -1) ~> (pc = "exited")
    /\ (pc = "alias_loop" /\ proc_rc # -1) ~> (pc # "alias_loop")

\* C28 witness: the subprocess has written two lines and exited with code 2,
\* both lines have been forwarded and the process has exited with 2
C28_Witness ==
    /\ pc = "exited"
    /\ AliasRun
    /\ Len(proc_out) = 2
    /\ pipe = <<>>
    /\ Len(stdout) = base + 2
    /\ proc_rc = 2
    /\ exit_code = 2

\* the positions of s, from pos on, where a match of the pattern of the name n
\* has its name: the leftmost matches that do not overlap
RECURSIVE NameStarts(_, _, _, _)
NameStarts(kind, s, n, pos) ==
    IF MatchStarts(kind, s, n, pos) = {} THEN {}
    ELSE LET i == CHOOSE x \in MatchStarts(kind, s, n, pos) :
                      \A y \in MatchStarts(kind, s, n, pos) : x <= y
         IN  {MatchAt(kind, s, n, i).from} \cup NameStarts(kind, s, n, MatchAt(kind, s, n, i).to)

\* s from position k on with every name matched in s replaced once by its own
\* alias, all names at the same time
RECURSIVE OwnAliasFrom(_, _, _)
OwnAliasFrom(kind, s, k) ==
    IF k > Len(s) THEN <<>>
    ELSE LET q == {n \in DOMAIN port_dict : k \in NameStarts(kind, s, n, 1)}
         IN  IF q = {} THEN <<s[k]>> \o OwnAliasFrom(kind, s, k + 1)
             ELSE LET n == CHOOSE x \in q : \A y \in q : Len(y) <= Len(x)
                  IN  port_dict[n].alias \o OwnAliasFrom(kind, s, k + Len(n))

\* every record has an alias and no alias makes the replacement template fail
Substitutable(d) ==
    /\ AllAliased(d)
    /\ \A p \in DOMAIN d : ~BadTemplate(d[p].alias)

\* C29: in the team and default branches the forwarded line is the line with
\* each matched name replaced once by its own alias, and it is the same for
\* every order in which the names are iterated: no pass rewrites what another
\* pass has inserted
C29_OrderIndependent ==
    (ReadOne({"team", "default"}) /\ Substitutable(port_dict)) =>
        /\ pc = "alias_loop"
        /\ stdout[base + 1] = RStripNL(OwnAliasFrom(Profile(command), proc_out[1], 1))
        /\ \A o \in KeyOrders(DOMAIN port_dict) :
              EchoConverted(SubLoop(Profile(command), o, proc_out[1])) = Ok(stdout[base + 1])

\* out is the line in, or the line in with a tab and one field after it
LineKept(out, in) ==
    \/ out = in
    \/ /\ Len(out) > Len(in) + 1
       /\ Take(out, Len(in)) = in
       /\ out[Len(in) + 1] = "\t"
       /\ \A k \in (Len(in) + 2)..Len(out) : out[k] \notin {"\t", "\n"}

\* the lines appended are the lines of the input, one for one and in order
LineStructureKept ==
    /\ Len(modified_output) = Len(SplitLines(command_output))
    /\ \A i \in 1..Len(modified_output) :
           LineKept(modified_output[i], SplitLines(command_output)[i])

\* C30: get_bgp_summary_extended never fails, whatever the command output, and
\* what it emits has the lines of the input in the same number and order, each
\* unchanged or with a tab and one field appended
C30_LineStructurePreserved ==
    pc \in {"exited", "crashed"} => pc = "exited" /\ LineStructureKept


====
